---- MODULE Spec2Model ----
(***************************************************************************)
(* A model of the Ruida protocol analyzer                                  *)
(* (src/protocols/ruida/ruida_analyzer.py): the dump reader, the packet    *)
(* deswizzler with its magic discovery, the handshake tracker and the      *)
(* decode loop that feeds the parser.                                      *)
(*                                                                         *)
(* Eight specifications:                                                   *)
(*   Spec     the analyzer run: construction (set_magic) followed by the   *)
(*            decode loop, one action per loop iteration, over bounded     *)
(*            capture files and every command-line configuration that      *)
(*            the modelled code reads;                                     *)
(*   SpecSwz  the pure byte function un_swizzle_byte applied to every      *)
(*            byte and every magic;                                        *)
(*   SpecPrs  the parser of src/ruida_parser.py driven through step and    *)
(*            through its state-entry method _enter_state;                 *)
(*   SpecDec  the parameter decoder RdDecoder driven through prime and     *)
(*            step;                                                        *)
(*   SpecEmt  the emitters RdaEmitter and RpaEmitter called as the reader  *)
(*            and the parser call them;                                    *)
(*   SpecMain the entry points cpa.py and rpa.py: main from the            *)
(*            construction of the analyzer to the exit of the process;     *)
(*   SpecFlat the flat analyzer src/ruida_analyzer.py: construction and    *)
(*            its decode loop;                                             *)
(*   SpecPlt  the plotter CpaPlotter driven through set_bed_dimension and  *)
(*            add_line.                                                    *)
(***************************************************************************)
EXTENDS Integers, Sequences, FiniteSets, TLC

VARIABLES
    args,           \* the command line: magic, stop_on_error, on_the_fly
    file,           \* the capture: a sequence of records (lines of the dump)
    rdr,            \* UdpDumpReader's attributes and its stream position
    pkt,            \* RdPacket's attributes
    acks_expected,  \* RuidaProtocolAnalyzer.acks_expected
    fed,            \* the calls made to parser.step, in order
    pc,             \* "init", "decode", "done", "aborted", "crashed"
    loads,          \* the packets _next_packet handled during the last action
    emitted,        \* the diagnostics written during the last action
    scan,           \* what the last magic discovery did
    start,          \* the stream position at which decode started
    fn,             \* the byte function under evaluation (SpecSwz)
    prs,            \* the parser: RdParser's attributes (SpecPrs)
    dec,            \* a parameter decoder: RdDecoder's attributes (SpecDec)
    emt,            \* an emitter: RpaEmitter's or RdaEmitter's attributes (SpecEmt)
    proc,           \* the process of an entry point: main's position (SpecMain)
    plot            \* the plotter: CpaPlotter's attributes (SpecPlt)

vars == <<args, file, rdr, pkt, acks_expected, fed, pc, loads, emitted, scan,
          start, fn, prs, dec, emt, proc, plot>>

(***************************************************************************)
(* Python's None, for an attribute that holds a byte or a length otherwise *)
(***************************************************************************)
None == -1

\* Handshake bytes.
ACK == 204
ERR == 205
ENQ == 206
NAK == 207

\* "self.reader.to_port in [40200, 50200]" and
\* "self.reader.from_port in [40200, 40207]".
LISTEN_PORTS == {40200, 50200}
REPLY_PORTS == {40200, 40207}

\* The port whose single-byte packets are magic candidates.
CANDIDATE_PORT == 40200

\* RAW ACK to swizzle magic number table: 0xC6 -> 0x88.
MAGIC_LUT == (198 :> 136)

\* "_tries = 4".
TRIES == 4

\* "& 0xFFFF" of the checksum and "& 0xFF" of a byte, as moduli.
CHK_MOD == 65536
BYTE_MOD == 256

(***************************************************************************)
(* Bounds of the model.                                                    *)
(***************************************************************************)
MaxRecs == 2     \* records of a file over the wide record catalogue
MaxScan == 5     \* records of a file over the handshake record catalogue
LongLen == 258   \* body bytes of the long host packet (its sum passes 65535)
MaxDup == 2      \* parser calls (and counter steps) followed beyond what
                 \* one pass over the file can make
MaxSteps == 3    \* operations on the parser in a run of SpecPrs

(***************************************************************************)
(* Integer helpers.                                                        *)
(***************************************************************************)
Max(a, b) == IF a >= b THEN a ELSE b

Min(a, b) == IF a < b THEN a ELSE b

Abs(a) == IF a < 0 THEN 0 - a ELSE a

\* Python's a ^ b on non-negative integers.
RECURSIVE BitXor(_, _)
BitXor(a, b) ==
    IF a = 0 THEN b
    ELSE IF b = 0 THEN a
    ELSE (((a % 2) + (b % 2)) % 2) + 2 * BitXor(a \div 2, b \div 2)

\* Python's sum() of a byte sequence.
RECURSIVE Sum(_)
Sum(s) ==
    IF Len(s) = 0 THEN 0
    ELSE IF Len(s) = 1 THEN s[1]
    ELSE Sum(SubSeq(s, 1, Len(s) \div 2))
         + Sum(SubSeq(s, Len(s) \div 2 + 1, Len(s)))

\* int.from_bytes(s) with the default (big-endian) byte order.
RECURSIVE from_bytes(_)
from_bytes(s) ==
    IF s = <<>> THEN 0
    ELSE from_bytes(SubSeq(s, 1, Len(s) - 1)) * BYTE_MOD + s[Len(s)]

(***************************************************************************)
(* RdPacket.un_swizzle_byte, with the magic as a parameter.                *)
(***************************************************************************)
\* un_swizzle_byte without its three shift-xor statements (lines 184-186).
un_swizzle_byte_no_swap(b, magic) ==
    BitXor((b - 1) % BYTE_MOD, magic)

un_swizzle_byte(b, magic) ==
    LET b1 == (b - 1) % BYTE_MOD
        b2 == BitXor(b1, magic)
        b3 == BitXor(b2, (b2 \div 128) % BYTE_MOD)
        b4 == BitXor(b3, (b3 * 128) % BYTE_MOD)
        b5 == BitXor(b4, (b4 \div 128) % BYTE_MOD)
    IN b5

\* The encode counterpart the deswizzle undoes: swap bits 0 and 7, XOR the
\* magic, add one modulo 256.
SwapBits07(b) ==
    LET lo == b % 2
        hi == b \div 128
    IN (b - lo - 128 * hi) + hi + 128 * lo

swizzle(b, magic) == (BitXor(SwapBits07(b), magic) + 1) % BYTE_MOD

(***************************************************************************)
(* The capture files the model runs on.  A record is one line of the dump: *)
(* the two ports, the declared UDP length (payload plus the 8-byte header) *)
(* and the payload bytes.  A line always carries at least one payload      *)
(* byte: with an empty last field the line has three fields only and       *)
(* next_packet cannot index the fourth.                                    *)
(***************************************************************************)
Rec(to, from, data) ==
    [to_port |-> to, from_port |-> from, udp_length |-> Len(data) + 8,
     data |-> data]

\* The two checksum bytes of a host payload whose checksum field is v.
ChkBytes(v) == <<(v \div BYTE_MOD) % BYTE_MOD, v % BYTE_MOD>>

\* The wide catalogue: every direction and swizzle combination of a few
\* payloads.  As host payloads: 198 and 204 are a lone byte (no room for a
\* checksum), <<0,198,198>> carries a matching and <<0,0,198>> a wrong
\* checksum.  As replies: 198 is the swizzled and 204 the plain ACK.
ToPorts == {50200, 40207}
FromPorts == {40200, 40207, 50200}
PayloadsA == {<<198>>, <<204>>, <<0, 198, 198>>, <<0, 0, 198>>}

RecsA ==
    {Rec(t, f, p) : t \in ToPorts, f \in FromPorts, p \in PayloadsA}
    \cup {Rec(40207, 40207, <<b>>) : b \in {ERR, ENQ, NAK}}
    \cup {[Rec(50200, 50200, <<0, 198, 198>>) EXCEPT !.udp_length = 12]}

\* The handshake catalogue: a host packet, a host packet that is a checksum
\* and nothing else, the swizzled ACK (a matching magic candidate) and the
\* swizzled NAK (a candidate that matches no table entry).
RecH == Rec(50200, 50200, <<0, 198, 198>>)
RecE == Rec(50200, 50200, <<0, 0>>)
RecACK == Rec(50200, 40200, <<swizzle(ACK, 136)>>)
RecNAK == Rec(50200, 40200, <<swizzle(NAK, 136)>>)
RecsB == {RecH, RecE, RecACK, RecNAK}

\* The long host packet: LongLen bytes of 255, so that the byte sum passes
\* 65535, under a checksum field that is the sum modulo 65536 or one more.
LongBody == [i \in 1..LongLen |-> 255]
RecsL ==
    {Rec(50200, 50200, ChkBytes((LongLen * 255 + d) % CHK_MOD) \o LongBody) :
        d \in {0, 1}}

SeqsUpTo(S, n) == UNION {[1..k -> S] : k \in 0..n}

Files ==
    SeqsUpTo(RecsA, MaxRecs) \cup SeqsUpTo(RecsB, MaxScan)
    \cup {<<r>> : r \in RecsL}

\* reset() is reached from the discovery branch of set_magic only, so the
\* source kind is left at "file" when the operator supplies the magic.
Args ==
    {a \in [magic : {None, 136}, stop_on_error : BOOLEAN, on_the_fly : BOOLEAN] :
        a.magic # None => ~a.on_the_fly}

\* The payload bytes of a file, over all its records.
RECURSIVE FileBytes(_)
FileBytes(f) == IF f = <<>> THEN 0 ELSE Len(Head(f).data) + FileBytes(Tail(f))

(***************************************************************************)
(* The parser (src/ruida_parser.py): the tables, RdDecoder and RdParser.   *)
(* The parser's state is the record prs: the attributes of RdParser and of *)
(* its RdDecoder, with out (the lines written by the last operation), ret  *)
(* (what the last step returned), exc (the exception the last operation    *)
(* ended with, "none" when it returned), from (the state the last          *)
(* operation started in) and hist (the operations so far).                 *)
(***************************************************************************)
\* A str or None attribute: none is TRUE for None, text is the pieces
\* appended so far.
NoneStr == [none |-> TRUE, text |-> <<>>]
Str(t) == [none |-> FALSE, text |-> t]

\* Table entries by Python type: a label (str), a subtable (dict), a spec
\* list (tuple: the label followed by the specs), a list, and no entry.
Label(l) == [kind |-> "str", label |-> l, specs |-> <<>>, sub |-> ""]
SubTable(t) == [kind |-> "dict", label |-> "", specs |-> <<>>, sub |-> t]
SpecList(l, s) == [kind |-> "tuple", label |-> l, specs |-> s, sub |-> ""]
ListEntry == [kind |-> "list", label |-> "", specs |-> <<>>, sub |-> ""]
NoEntry == [kind |-> "none", label |-> "", specs |-> <<>>, sub |-> ""]

\* CT, with the entries the model steps over, and KT.
CT ==
    (136 :> SpecList("MOVE_ABS_XY", <<"XABSCOORD", "YABSCOORD">>))
    @@ (165 :> SubTable("KT"))
    @@ (198 :> SubTable("CT_C6"))
    @@ (215 :> Label("EOF"))
    @@ (218 :> SubTable("CT_DA"))

CT_C6 == (1 :> SpecList("MIN_POWER_1", <<"PARSE_POWER">>))

CT_DA == (0 :> SpecList("GET_SETTING", <<"MEMORY", "REPLY", "UINT7">>))

KT == (80 :> ListEntry) @@ (83 :> SubTable("KT_53"))

KT_53 == (0 :> Label("INTERFACE_FRAME"))

\* An entry of MT: the reply marker first.
MT_IO_ENABLE == SpecList("IO Enable", <<"REPLY", "TBD">>)

TableOf(t) ==
    CASE t = "CT" -> CT
      [] t = "CT_C6" -> CT_C6
      [] t = "CT_DA" -> CT_DA
      [] t = "KT" -> KT
      [] t = "KT_53" -> KT_53

\* The specs: REPLY is an int, the others are tuples (format, decoder,
\* type); DDEC is the decoder name and TypeBytes is RD_TYPES[type][1].
REPLY == "REPLY"

DDEC(spec) ==
    CASE spec \in {"XABSCOORD", "YABSCOORD", "INT35"} -> "int35"
      [] spec = "UINT35" -> "uint35"
      [] spec = "INT14" -> "int14"
      [] spec \in {"MEMORY", "UINT14"} -> "uint14"
      [] spec = "INT7" -> "int7"
      [] spec = "UINT7" -> "uint7"
      [] spec = "BOOL7" -> "bool"
      [] spec = "PARSE_POWER" -> "power"
      [] spec \in {"CSTRING", "FNAME", "ENAME"} -> "cstring"
      [] spec = "TBD" -> "tbd"

TypeBytes(spec) ==
    CASE spec \in {"XABSCOORD", "YABSCOORD", "INT35", "UINT35"} -> 5
      [] spec \in {"PARSE_POWER", "MEMORY", "INT14", "UINT14"} -> 2
      [] spec \in {"INT7", "UINT7", "BOOL7", "CSTRING", "FNAME", "ENAME"} -> 1
      [] spec = "TBD" -> -1

\* The names for which RdDecoder has a method rd_<name>.
RD_METHODS == {"int7", "uint7", "bool", "int14", "uint14", "int35", "uint35", "tbd"}

\* The states for which RdParser has both _tr_<state> and _st_<state>.
STATES == {"sync", "expect_command", "expect_sub_command", "decode_parameters",
           "expect_reply"}

\* RdaEmitter.write: one line written.
rda_write(p, line) == [p EXCEPT !.out = Append(@, line)]

\* RdaEmitter.error: the line is written, then SyntaxError with
\* --stop-on-error.
rda_error(p, line) ==
    [rda_write(p, line) EXCEPT !.exc = IF args.stop_on_error THEN "SyntaxError" ELSE @]

\* RdaEmitter.protocol: SyntaxError with --stop-on-error, otherwise the
\* line is written and the call returns.
rda_protocol(p, line) ==
    IF args.stop_on_error THEN [p EXCEPT !.exc = "SyntaxError"]
    ELSE rda_write(p, line)

\* RdaEmitter.critical: the line is written and the call returns.
rda_critical(p, line) == rda_write(p, line)

\* RdDecoder.value: None, an int, a bool or the hex string of rd_tbd.
NoValue == [t |-> "none", n |-> 0]

DecoderInit ==
    [spec |-> "", length |-> 0, remaining |-> 0, data |-> <<>>,
     accumulating |-> FALSE, value |-> NoValue]

\* RdDecoder.prime(spec).
prime_keep_data(p, spec) ==
    IF spec = REPLY
    THEN [p EXCEPT !.exc = "TypeError"]
    ELSE IF DDEC(spec) \notin RD_METHODS
    THEN [p EXCEPT !.exc = "AttributeError",
                   !.decoder = [@ EXCEPT !.spec = spec, !.value = NoValue]]
    ELSE [p EXCEPT !.decoder = [@ EXCEPT !.spec = spec,
                                         !.value = NoValue,
                                         !.length = TypeBytes(spec),
                                         !.remaining = TypeBytes(spec)]]

prime(p, spec) ==
    IF spec = REPLY
    THEN [p EXCEPT !.exc = "TypeError"]          \* spec[0] of an int
    ELSE IF DDEC(spec) \notin RD_METHODS
    THEN [p EXCEPT !.exc = "AttributeError",     \* getattr(self, 'rd_...')
                   !.decoder = [@ EXCEPT !.spec = spec, !.data = <<>>,
                                         !.value = NoValue]]
    ELSE [p EXCEPT !.decoder = [@ EXCEPT !.spec = spec, !.data = <<>>,
                                         !.value = NoValue,
                                         !.length = TypeBytes(spec),
                                         !.remaining = TypeBytes(spec)]]

\* The loop of to_uint: "_v += (_v << 7) + data[_i]" for _i in range(_n).
RECURSIVE uint_loop(_, _, _, _)
uint_loop(data, i, n, v) ==
    IF i > n THEN v ELSE uint_loop(data, i + 1, n, v + (v * 128) + data[i])

\* RdDecoder.to_uint(data), _n = self._length.
to_uint(data, n) == uint_loop(data, 1, n, 0)

\* The loop of to_int: the first byte is masked with 0x3F.
RECURSIVE int_loop(_, _, _, _)
int_loop(data, i, n, v) ==
    IF i > n THEN v
    ELSE LET _b == IF i = 1 THEN data[i] % 64 ELSE data[i]
         IN int_loop(data, i + 1, n, v + (v * 128) + _b)

\* RdDecoder.to_int(data): negated when bit 6 of data[0] is set.
to_int(data, n) ==
    LET _v == int_loop(data, 1, n, 0)
    IN IF (data[1] \div 64) % 2 = 1 THEN 0 - _v ELSE _v

\* self._decoder(self.data): the rd_<name> method primed.
rd_value(name, data, n) ==
    CASE name = "int7" ->
             [t |-> "int", n |-> IF (data[1] \div 64) % 2 = 1 THEN 0 - data[1]
                                 ELSE data[1]]
      [] name = "uint7" -> [t |-> "int", n |-> data[1]]
      [] name = "bool" -> [t |-> "bool", n |-> IF data[1] # 0 THEN 1 ELSE 0]
      [] name \in {"int14", "int35"} -> [t |-> "int", n |-> to_int(data, n)]
      [] name \in {"uint14", "uint35"} -> [t |-> "int", n |-> to_uint(data, n)]
      [] name = "tbd" -> [t |-> "hex", n |-> 0]

\* The two range tests of RdDecoder.step, each reporting through
\* out.protocol.
step_reject(p, datum) ==
    LET p1 == IF (datum \div 128) % 2 = 1
              THEN rda_protocol(p, "INT:FTL:Should not have bit 7 set.")
              ELSE p
    IN IF p1.exc # "none" THEN p1
       ELSE IF datum > 127
       THEN rda_protocol(p1, "INT:FTL:Should not be greater than 128.")
       ELSE p1

\* RdDecoder.step(datum, remaining): dret is the string returned, None
\* while accumulating.
decoder_step(p, datum, remaining) ==
    LET p1 == step_reject(p, datum)
        left == IF remaining # None THEN remaining ELSE p.decoder.remaining - 1
    IN IF p1.exc # "none" THEN [p |-> p1, dret |-> NoneStr]
       ELSE LET p2 == [p1 EXCEPT !.decoder = [@ EXCEPT !.accumulating = left > 0,
                                                      !.data = Append(@, datum),
                                                      !.remaining = left]]
            IN IF left > 0 THEN [p |-> p2, dret |-> NoneStr]
               ELSE IF p2.decoder.spec = ""
               THEN [p |-> [p2 EXCEPT !.exc = "TypeError"], dret |-> NoneStr]
               ELSE IF Len(p2.decoder.data) < p2.decoder.length
               THEN [p |-> [p2 EXCEPT !.exc = "IndexError"], dret |-> NoneStr]
               ELSE [p |-> [p2 EXCEPT !.decoder.value =
                                rd_value(DDEC(p2.decoder.spec), p2.decoder.data,
                                         p2.decoder.length)],
                     dret |-> Str(<<p2.decoder.spec>>)]

\* RdParser._format_decoded(message): "self.decoded += message".
format_decoded(p, message) ==
    IF p.decoded.none THEN [p EXCEPT !.exc = "TypeError"]
    ELSE [p EXCEPT !.decoded = Str(Append(@.text, message))]

h_is_command(datum) == (datum % 256) \div 128 = 1

h_is_known_command(p, datum) == datum \in DOMAIN TableOf(p.ct)

h_prepare_for_command(p) ==
    [p EXCEPT !.data = <<>>, !.parameters = <<>>, !.param_bytes = <<>>,
              !.command_bytes = <<>>, !.decoded = NoneStr, !.ct = "CT"]

\* len(self.param_list) and self.param_list[i]: the label is element 0.
ListLen(e) == Len(e.specs) + 1

RECURSIVE enter_state(_, _)
\* RdParser._h_check_for_reply.
h_check_for_reply(p) ==
    IF p.param_list.kind = "none" \/ p.which_param = None
    THEN [p EXCEPT !.exc = "TypeError"]
    ELSE IF p.which_param >= ListLen(p.param_list)
    THEN [p EXCEPT !.exc = "IndexError"]
    ELSE LET _param == p.param_list.specs[p.which_param]
         IN IF _param # REPLY
            THEN LET p1 == prime(p, _param)
                 IN IF p1.exc # "none" THEN p1
                    ELSE \* f'Decoding parameter {_next}.': _next unbound.
                         [p1 EXCEPT !.exc = "UnboundLocalError"]
            ELSE LET _next == p.which_param + 1
                 IN IF _next > ListLen(p.param_list)
                    THEN LET p1 == rda_protocol(p, "INT:FTL:No reply type following reply marker.")
                         IN IF p1.exc # "none" THEN p1
                            ELSE enter_state(p1, "sync")
                    ELSE enter_state(p, "expect_reply")

\* The transition handlers _tr_<state>, called without arguments.
tr_state(p, state) ==
    CASE state \in {"sync", "expect_command"} -> h_prepare_for_command(p)
      [] state = "expect_sub_command" ->
            \* _tr_expect_sub_command(self, datum): an argument is missing.
            [p EXCEPT !.exc = "TypeError"]
      [] state = "decode_parameters" ->
            IF p.param_list.kind = "none"
            THEN [p EXCEPT !.exc = "TypeError"]
            ELSE h_check_for_reply(
                     [p EXCEPT !.decoded = Str(<<p.param_list.label>>),
                               !.which_param = 1])
      [] state = "expect_reply" ->
            LET p1 == [p EXCEPT !.decoded = IF @.none THEN Str(<<>>)
                                            ELSE Str(Append(@.text, "\n"))]
            IN IF p1.param_list.kind = "none" \/ p1.which_param = None
               THEN [p1 EXCEPT !.exc = "TypeError"]
               ELSE IF p1.which_param >= ListLen(p1.param_list)
               THEN [p1 EXCEPT !.exc = "IndexError"]
               ELSE prime(p1, p1.param_list.specs[p1.which_param])

\* RdParser._enter_state(state).
enter_state(p, state) ==
    IF state \notin STATES
    THEN [p EXCEPT !.exc = "AttributeError"]     \* getattr(self, '_tr_...')
    ELSE tr_state([p EXCEPT !.stepper = state, !.state = state], state)

\* What a state handler returns with: the parser and the value returned.
Ret(p, r) == [p EXCEPT !.ret = r]

\* "_msg = self._format_decoded(...)": _format_decoded returns nothing.
DispatchLabel(p, e) ==
    LET p1 == format_decoded(p, e.label)
    IN IF p1.exc # "none" THEN p1
       ELSE Ret(enter_state(p1, "expect_command"), NoneStr)

st_sync(p, datum) ==
    IF h_is_command(datum) /\ h_is_known_command(p, datum)
    THEN LET e == TableOf(p.ct)[datum]
         IN CASE e.kind = "str" -> DispatchLabel(p, e)
              [] e.kind = "dict" -> enter_state(p, "expect_sub_command")
              [] e.kind = "tuple" -> enter_state(p, "expect_parameter")
              [] OTHER ->
                   LET p1 == rda_protocol(p, "INT:FTL:Unsupprted or unexpected type in command.")
                   IN IF p1.exc # "none" THEN p1 ELSE enter_state(p1, "sync")
    ELSE p

DispatchList(p, e) ==
    enter_state([p EXCEPT !.param_list = e], "decode_parameters")

st_expect_command(p, datum) ==
    IF h_is_command(p.datum)
    THEN IF h_is_known_command(p, datum)
         THEN LET e == TableOf(p.ct)[datum]
              IN CASE e.kind = "str" -> DispatchLabel(p, e)
                   [] e.kind = "dict" -> enter_state(p, "expect_sub_command")
                   [] e.kind = "tuple" -> DispatchList(p, e)
                   [] OTHER ->
                        LET p1 == rda_error(p, "PRT:ERR:Unsupprted or unexpected type in command.")
                        IN IF p1.exc # "none" THEN p1 ELSE enter_state(p1, "sync")
         ELSE enter_state(rda_critical(p, "INT:CRT:not a known command."), "sync")
    ELSE h_prepare_for_command(p)                \* self._tr_sync()

st_expect_sub_command(p, datum) ==
    IF h_is_command(p.datum)
    THEN IF h_is_known_command(p, datum)
         THEN LET e == TableOf(p.ct)[datum]
              IN CASE e.kind = "str" -> DispatchLabel(p, e)
                   [] e.kind = "dict" ->
                        LET p1 == rda_protocol(p, "INT:FTL:Too many sub-levels for sub-command")
                        IN IF p1.exc # "none" THEN p1
                           ELSE [p1 EXCEPT !.exc = "TypeError"]  \* self._tr_sync(datum)
                   [] e.kind = "tuple" -> DispatchList(p, e)
                   [] OTHER ->
                        rda_protocol(p, "INT:FTL:Unsupprted or unexpected type in command.")
         ELSE h_prepare_for_command(
                  rda_critical(p, "INT:CRT:not a known command."))
    ELSE enter_state(p, "sync")

st_decode_parameters(p, datum) ==
    IF h_is_command(datum)
    THEN LET p1 == rda_error(p, "PRT:ERR:is a command -- expected data.")
         IN IF p1.exc # "none" THEN p1 ELSE enter_state(p1, "sync")
    ELSE LET d == decoder_step(p, datum, None)
         IN IF d.p.exc # "none" \/ d.dret.none THEN d.p
            ELSE LET p1 == [d.p EXCEPT !.decoded =
                                Str(@.text \o <<" ">> \o d.dret.text)]
                     _next == p1.which_param + 1
                 IN IF _next > ListLen(p1.param_list)
                    THEN LET p2 == enter_state(p1, "expect_command")
                         IN IF p2.exc # "none" THEN p2 ELSE Ret(p2, p2.decoded)
                    ELSE h_check_for_reply([p1 EXCEPT !.which_param = _next])

st_expect_reply(p, datum) ==
    IF h_is_command(datum)
    THEN LET p1 == rda_error(p, "PRT:ERR:is a command -- expected data.")
         IN IF p1.exc # "none" THEN p1 ELSE enter_state(p1, "sync")
    ELSE LET d == decoder_step(p, datum, p.remaining)
         IN IF d.p.exc # "none" \/ d.dret.none THEN d.p
            ELSE LET p1 == [d.p EXCEPT !.decoded =
                                Str(@.text \o <<"Reply=">> \o d.dret.text)]
                 IN Ret(p1, p1.decoded)

\* RdParser.step(datum, is_reply, remaining).
step(p, datum, is_reply, remaining) ==
    LET p1 == [p EXCEPT !.last = p.datum, !.datum = datum,
                        !.last_is_reply = p.is_reply, !.is_reply = is_reply,
                        !.remaining = remaining]
    IN CASE p1.stepper = "sync" -> st_sync(p1, datum)
         [] p1.stepper = "expect_command" -> st_expect_command(p1, datum)
         [] p1.stepper = "expect_sub_command" -> st_expect_sub_command(p1, datum)
         [] p1.stepper = "decode_parameters" -> st_decode_parameters(p1, datum)
         [] p1.stepper = "expect_reply" -> st_expect_reply(p1, datum)

\* RdParser.__init__.
RdParser_init ==
    enter_state(
        [state |-> "", stepper |-> "", ct |-> "CT", datum |-> None,
         remaining |-> None, last |-> None, is_reply |-> FALSE,
         last_is_reply |-> FALSE, data |-> <<>>, param_list |-> NoEntry,
         which_param |-> None, parameters |-> <<>>, command_bytes |-> <<>>,
         param_bytes |-> <<>>, decoder |-> DecoderInit, decoded |-> Str(<<>>),
         out |-> <<>>, ret |-> NoneStr, exc |-> "none", from |-> "",
         hist |-> <<>>],
        "sync")

(***************************************************************************)
(* The state after the objects' attributes are initialised and before      *)
(* RuidaProtocolAnalyzer.__init__ calls set_magic.                         *)
(***************************************************************************)
RdrInit ==
    [pos |-> 0, line_number |-> 0, to_port |-> None, from_port |-> None,
     length |-> 0, data |-> <<>>]

\* swizzled and chk_ok are first assigned by _next_packet; src is the file
\* index of the record the attributes were last set from and cur that of
\* the last record _next_packet handled to its end (0: none yet).
PktInit ==
    [magic |-> None, new_packet |-> FALSE, reply |-> FALSE,
     handshake |-> FALSE, swizzled |-> FALSE, chk_ok |-> TRUE,
     data |-> <<>>, length |-> 0, take |-> 0, src |-> 0, cur |-> 0]

\* The decoder and the emitter of the specifications that do not use them.
DecIdle == [idle |-> TRUE]

EmtIdle == [idle |-> TRUE]
ProcIdle == [idle |-> TRUE]
PlotIdle == [idle |-> TRUE]

ScanInit == [ran |-> FALSE, examined |-> 0, outcome |-> "none"]

FnIdle == [stage |-> "idle", b |-> 0, m |-> 0, r |-> 0]

Init ==
    /\ args \in Args
    /\ file \in Files
    /\ rdr = RdrInit
    /\ pkt = PktInit
    /\ acks_expected = 0
    /\ fed = <<>>
    /\ pc = "init"
    /\ loads = <<>>
    /\ emitted = <<>>
    /\ scan = ScanInit
    /\ start = 0
    /\ fn = FnIdle
    /\ prs = RdParser_init
    /\ dec = DecIdle
    /\ emt = EmtIdle
    /\ proc = ProcIdle
    /\ plot = PlotIdle

(***************************************************************************)
(* The emitter (cpa.cpa_emitter.CpaEmitter).  error() writes its line and, *)
(* in strict mode, raises to the top level; fatal() and shutdown() always  *)
(* raise.  Only what is raised and which lines are written is modelled.    *)
(***************************************************************************)
error_raises == args.stop_on_error

(***************************************************************************)
(* UdpDumpReader.                                                          *)
(***************************************************************************)
\* next_packet: ret is "eof" (None returned), "ok" (the length returned) or
\* "fatal" (the length mismatch raised by out.fatal).
UdpDumpReader_next_packet(r) ==
    IF r.pos >= Len(file)
    THEN [rdr |-> r, ret |-> "eof"]
    ELSE LET rec == file[r.pos + 1]
             r2 == [r EXCEPT !.pos = @ + 1,
                             !.line_number = @ + 1,
                             !.to_port = rec.to_port,
                             !.from_port = rec.from_port,
                             !.length = rec.udp_length - 8,
                             !.data = rec.data]
         IN [rdr |-> r2,
             ret |-> IF Len(r2.data) # r2.length THEN "fatal" ELSE "ok"]

\* reset without the seek.
UdpDumpReader_reset_no_seek(r) == r

UdpDumpReader_reset(r) ==
    IF ~args.on_the_fly
    THEN [r EXCEPT !.pos = 0, !.line_number = 0]
    ELSE r

(***************************************************************************)
(* RdPacket._next_packet, in pieces.                                       *)
(***************************************************************************)
IsSwizzled(to_port) == to_port \in LISTEN_PORTS

IsReply(from_port) == from_port \in REPLY_PORTS

\* "_data": the whole payload of a reply, the payload after the two
\* checksum bytes of a host packet.
\* The payload with the checksum bytes of a host packet left in.
PayloadData_keep_checksum(raw, reply) == raw

PayloadData(raw, reply) ==
    IF reply THEN raw ELSE SubSeq(raw, 3, Len(raw))

\* "chk_ok".
\* chk_ok without "& 0xFFFF".
ChkOk_no_wrap(raw, reply) ==
    reply \/ (from_bytes(SubSeq(raw, 1, Min(2, Len(raw))))
                = Sum(SubSeq(raw, 3, Len(raw))))

ChkOk(raw, reply) ==
    IF reply
    THEN TRUE
    ELSE LET _chk == from_bytes(SubSeq(raw, 1, Min(2, Len(raw))))
             _chk_sum == Sum(SubSeq(raw, 3, Len(raw))) % CHK_MOD
         IN _chk = _chk_sum

\* "self.data": every byte of _data through un_swizzle_byte when the packet
\* is swizzled, _data itself otherwise.
Deswizzle(_data, swizzled, magic) ==
    IF swizzled
    THEN [i \in 1..Len(_data) |-> un_swizzle_byte(_data[i], magic)]
    ELSE _data

\* The data _next_packet exposes for a record: lines 200 to 225 together.
\* The data deswizzled by direction (host packets only) and not by port.
ExposedData_by_direction(raw, to_port, from_port, magic) ==
    Deswizzle(PayloadData(raw, IsReply(from_port)), ~IsReply(from_port), magic)

ExposedData(raw, to_port, from_port, magic) ==
    Deswizzle(PayloadData(raw, IsReply(from_port)), IsSwizzled(to_port), magic)

\* "self.handshake".
\* The flag without the test of self.reply.
IsHandshake_any_direction(reply, length) == length = 1

IsHandshake(reply, length) ==
    IF reply THEN length = 1 ELSE FALSE

\* What `loads` keeps of a packet _next_packet handled: the record's index
\* in the file and the attributes as _next_packet left them; complete is
\* FALSE when it raised before its last statement.
Snapshot(p, complete) ==
    [src |-> p.src, reply |-> p.reply, swizzled |-> p.swizzled,
     chk_ok |-> p.chk_ok, data |-> p.data, length |-> p.length,
     handshake |-> p.handshake, complete |-> complete]

\* The threaded state S: the reader, the packet, st ("ok", "aborted" for a
\* raise of the emitter, "crashed" for a TypeError), ret (the value
\* returned), b (next_byte's byte), em (lines emitted), lds and sc.
\* _next_packet without "self.take = 0".
RdPacket_next_packet_keep_take(S) ==
    LET n == UdpDumpReader_next_packet(S.rdr)
    IN
    IF n.ret = "eof" THEN [S EXCEPT !.ret = None]
    ELSE IF n.ret = "fatal" THEN [S EXCEPT !.rdr = n.rdr, !.st = "aborted"]
    ELSE
    LET r == n.rdr
        swz == IsSwizzled(r.to_port)
        rep == IsReply(r.from_port)
        _data == PayloadData(r.data, rep)
        ok == ChkOk(r.data, rep)
        em1 == IF ok THEN S.em ELSE Append(S.em, "ERR:Checksum mismatch")
        p1 == [S.pkt EXCEPT !.new_packet = TRUE, !.swizzled = swz,
                            !.reply = rep, !.chk_ok = ok, !.src = r.pos]
    IN
    IF ~ok /\ error_raises
    THEN [S EXCEPT !.rdr = r, !.pkt = p1, !.em = em1, !.st = "aborted",
                   !.lds = Append(@, Snapshot(p1, FALSE))]
    ELSE IF swz /\ S.pkt.magic = None /\ _data # <<>>
    THEN \* "b ^= self.magic" with the magic None: TypeError, after
         \* "self.data = bytearray(b'')".
         LET p2 == [p1 EXCEPT !.data = <<>>]
         IN [S EXCEPT !.rdr = r, !.pkt = p2, !.em = em1, !.st = "crashed",
                      !.lds = Append(@, Snapshot(p2, FALSE))]
    ELSE
    LET d == ExposedData(r.data, r.to_port, r.from_port, S.pkt.magic)
        p2 == [p1 EXCEPT !.data = d, !.length = Len(d),
                         !.handshake = IsHandshake(rep, Len(d)),
                         !.cur = r.pos]
    IN [S EXCEPT !.rdr = r, !.pkt = p2, !.em = em1, !.ret = Len(d),
                 !.lds = Append(@, Snapshot(p2, TRUE))]

RdPacket_next_packet(S) ==
    LET n == UdpDumpReader_next_packet(S.rdr)
    IN
    IF n.ret = "eof" THEN [S EXCEPT !.ret = None]
    ELSE IF n.ret = "fatal" THEN [S EXCEPT !.rdr = n.rdr, !.st = "aborted"]
    ELSE
    LET r == n.rdr
        swz == IsSwizzled(r.to_port)
        rep == IsReply(r.from_port)
        _data == PayloadData(r.data, rep)
        ok == ChkOk(r.data, rep)
        em1 == IF ok THEN S.em ELSE Append(S.em, "ERR:Checksum mismatch")
        p1 == [S.pkt EXCEPT !.new_packet = TRUE, !.swizzled = swz,
                            !.reply = rep, !.chk_ok = ok, !.src = r.pos]
    IN
    IF ~ok /\ error_raises
    THEN [S EXCEPT !.rdr = r, !.pkt = p1, !.em = em1, !.st = "aborted",
                   !.lds = Append(@, Snapshot(p1, FALSE))]
    ELSE IF swz /\ S.pkt.magic = None /\ _data # <<>>
    THEN \* "b ^= self.magic" with the magic None: TypeError, after
         \* "self.data = bytearray(b'')".
         LET p2 == [p1 EXCEPT !.data = <<>>]
         IN [S EXCEPT !.rdr = r, !.pkt = p2, !.em = em1, !.st = "crashed",
                      !.lds = Append(@, Snapshot(p2, FALSE))]
    ELSE
    LET d == ExposedData(r.data, r.to_port, r.from_port, S.pkt.magic)
        p2 == [p1 EXCEPT !.data = d, !.length = Len(d),
                         !.handshake = IsHandshake(rep, Len(d)),
                         !.take = 0, !.cur = r.pos]
    IN [S EXCEPT !.rdr = r, !.pkt = p2, !.em = em1, !.ret = Len(d),
                 !.lds = Append(@, Snapshot(p2, TRUE))]

(***************************************************************************)
(* RdPacket.set_magic.                                                     *)
(***************************************************************************)
\* The discovery loop from the reader state r with _tries = tries left;
\* examined counts the candidates (single-byte packets from port 40200)
\* whose byte was looked up in MAGIC_LUT.
RECURSIVE Discover(_, _, _)
Discover(r, tries, examined) ==
    LET n == UdpDumpReader_next_packet(r)
    IN
    IF n.ret = "eof"
    THEN [rdr |-> n.rdr, magic |-> None, outcome |-> "eof",
          examined |-> examined]
    ELSE IF n.ret = "fatal"
    THEN [rdr |-> n.rdr, magic |-> None, outcome |-> "fatal",
          examined |-> examined]
    ELSE IF n.rdr.from_port = CANDIDATE_PORT /\ n.rdr.length = 1
    THEN LET _r == n.rdr.data[1]
         IN IF _r \in DOMAIN MAGIC_LUT
            THEN [rdr |-> n.rdr, magic |-> MAGIC_LUT[_r], outcome |-> "found",
                  examined |-> examined + 1]
            ELSE IF tries # 0
            THEN Discover(n.rdr, tries - 1, examined + 1)
            ELSE [rdr |-> n.rdr, magic |-> None, outcome |-> "shutdown",
                  examined |-> examined + 1]
    ELSE Discover(n.rdr, tries, examined)

set_magic(S, magic) ==
    IF magic = None
    THEN LET d == Discover(UdpDumpReader_reset(S.rdr), TRIES, 0)
             sc == [ran |-> TRUE, examined |-> d.examined,
                    outcome |-> d.outcome]
         IN CASE d.outcome = "shutdown" ->
                   [S EXCEPT !.rdr = d.rdr, !.sc = sc, !.st = "aborted",
                             !.em = Append(@, "FTL:Magic number not discovered.")]
              [] d.outcome = "fatal" ->
                   [S EXCEPT !.rdr = d.rdr, !.sc = sc, !.st = "aborted"]
              [] d.outcome = "found" ->
                   [S EXCEPT !.rdr = UdpDumpReader_reset(d.rdr), !.sc = sc,
                             !.pkt.magic = d.magic]
              [] OTHER ->
                   [S EXCEPT !.rdr = UdpDumpReader_reset(d.rdr), !.sc = sc]
    ELSE [S EXCEPT !.pkt.magic = magic]

(***************************************************************************)
(* RdPacket.next_byte.                                                     *)
(***************************************************************************)
remaining(p) == p.length - p.take

RECURSIVE next_byte_loop(_)
next_byte_loop(S) ==
    IF remaining(S.pkt) > 0
    THEN [S EXCEPT !.b = S.pkt.data[S.pkt.take + 1], !.pkt.take = @ + 1]
    ELSE LET S2 == RdPacket_next_packet(S)
         IN IF S2.st # "ok" THEN S2
            ELSE IF S2.ret = None THEN [S2 EXCEPT !.b = None]
            ELSE next_byte_loop([S2 EXCEPT !.pkt.new_packet = TRUE])

\* next_byte that reports the end of input instead of pulling a record.
next_byte_no_pull(S) ==
    LET S1 == IF S.pkt.magic = None THEN set_magic(S, None) ELSE S
    IN IF S1.st # "ok" THEN S1
       ELSE IF remaining(S1.pkt) > 0
       THEN next_byte_loop([S1 EXCEPT !.pkt.new_packet = FALSE])
       ELSE [S1 EXCEPT !.pkt.new_packet = FALSE, !.b = None]

next_byte(S) ==
    LET S1 == IF S.pkt.magic = None THEN set_magic(S, None) ELSE S
    IN IF S1.st # "ok" THEN S1
       ELSE next_byte_loop([S1 EXCEPT !.pkt.new_packet = FALSE])

(***************************************************************************)
(* RuidaProtocolAnalyzer.check_handshake on the packet p: the new counter, *)
(* the lines emitted and whether out.error raised.                         *)
(***************************************************************************)
check_handshake(p, acks, em) ==
    IF p.reply
    THEN IF p.handshake
         THEN LET _b == p.data[1]
              IN IF _b = ACK
                 THEN [acks |-> acks - 1, em |-> Append(em, "RDR:SHK:ACK"),
                       raised |-> FALSE]
                 ELSE IF _b = NAK
                 THEN [acks |-> acks, em |-> Append(em, "RDR:SHK:NAK"),
                       raised |-> FALSE]
                 ELSE IF _b = ERR
                 THEN [acks |-> acks, em |-> Append(em, "RDR:SHK:ERR"),
                       raised |-> FALSE]
                 ELSE IF _b = ENQ
                 THEN [acks |-> acks, em |-> Append(em, "RDR:SHK:ENQ"),
                       raised |-> FALSE]
                 ELSE IF error_raises
                 THEN [acks |-> acks, em |-> Append(em, "ERR:Handshake"),
                       raised |-> TRUE]
                 ELSE [acks |-> acks,
                       em |-> em \o <<"ERR:Handshake",
                                IF acks # 0
                                THEN "RDR:SHK:Received when ACK was expected."
                                ELSE "RDR:SHK:Unexpected reply byte">>,
                       raised |-> FALSE]
         ELSE [acks |-> acks, em |-> Append(em, "RDR:SHK:Reply data"),
               raised |-> FALSE]
    ELSE [acks |-> acks + 1, em |-> Append(em, "RDR:SHK:Expecting ACK"),
          raised |-> FALSE]

(***************************************************************************)
(* RdParser.step as the analyzer sees it: the call is recorded with its    *)
(* arguments (src, the file index of the packet the byte came from, is     *)
(* kept beside them); in strict mode a parser error raises out of decode.  *)
(***************************************************************************)
ParserCall(b, p) ==
    [b |-> b, is_reply |-> p.reply, take |-> p.take,
     remaining |-> remaining(p), src |-> p.src]

(***************************************************************************)
(* Actions.                                                                *)
(***************************************************************************)
Thread == [rdr |-> rdr, pkt |-> pkt, st |-> "ok", ret |-> None, b |-> None,
           em |-> <<>>, lds |-> <<>>, sc |-> scan]

\* RuidaProtocolAnalyzer.__init__: "self._pkt.set_magic(args.magic)".
Construct ==
    /\ pc = "init"
    /\ LET S == set_magic(Thread, args.magic)
       IN /\ rdr' = S.rdr
          /\ pkt' = S.pkt
          /\ scan' = S.sc
          /\ emitted' = S.em
          /\ loads' = S.lds
          /\ start' = S.rdr.pos
          /\ pc' = IF S.st = "ok" THEN "decode" ELSE S.st
    /\ UNCHANGED <<args, file, acks_expected, fed, fn, prs, dec, emt, proc, plot>>

\* The rest of an iteration of the loop of RuidaProtocolAnalyzer.decode once
\* next_byte has returned in S and (for the first byte of a packet)
\* check_handshake in hs.  perr: the parser raised on the byte.
DecodeRest(S, hs, perr) ==
    /\ rdr' = S.rdr
    /\ pkt' = S.pkt
    /\ scan' = S.sc
    /\ loads' = S.lds
    /\ IF S.st # "ok"
       THEN /\ pc' = S.st
            /\ emitted' = S.em
            /\ UNCHANGED <<acks_expected, fed>>
       ELSE IF S.b = None
       THEN /\ pc' = "done"
            /\ emitted' = S.em
            /\ UNCHANGED <<acks_expected, fed>>
       ELSE /\ acks_expected' = hs.acks
            /\ emitted' = hs.em
            /\ IF hs.raised
               THEN pc' = "aborted" /\ fed' = fed
               ELSE IF S.pkt.handshake
               THEN pc' = "decode" /\ fed' = fed
               ELSE /\ fed' = Append(fed, ParserCall(S.b, S.pkt))
                    /\ pc' = IF perr THEN "aborted" ELSE "decode"

DecodeByte(S, perr) ==
    DecodeRest(S,
               IF S.pkt.new_packet
               THEN check_handshake(S.pkt, acks_expected, S.em)
               ELSE [acks |-> acks_expected, em |-> S.em, raised |-> FALSE],
               perr)

\* One iteration of the loop of RuidaProtocolAnalyzer.decode.  The parser
\* may raise on a byte in strict mode only.
Decode ==
    /\ pc = "decode"
    /\ Len(fed) < FileBytes(file) + MaxDup
    /\ Abs(acks_expected) < Len(file) + MaxDup
    /\ \E perr \in (IF args.stop_on_error THEN BOOLEAN ELSE {FALSE}) :
         DecodeByte(next_byte(Thread), perr)
    /\ UNCHANGED <<args, file, start, fn, prs, dec, emt, proc, plot>>

Next == Construct \/ Decode

Spec == Init /\ [][Next]_vars

(***************************************************************************)
(* SpecSwz: un_swizzle_byte on the swizzled form of every byte under every *)
(* magic.                                                                  *)
(***************************************************************************)
InitSwz ==
    /\ fn \in {[stage |-> "in", b |-> b, m |-> m, r |-> swizzle(b, m)] :
                b \in 0..255, m \in 0..255}
    /\ args = [magic |-> None, stop_on_error |-> FALSE, on_the_fly |-> FALSE]
    /\ file = <<>>
    /\ rdr = RdrInit
    /\ pkt = PktInit
    /\ acks_expected = 0
    /\ fed = <<>>
    /\ pc = "fn"
    /\ loads = <<>>
    /\ emitted = <<>>
    /\ scan = ScanInit
    /\ start = 0
    /\ prs = RdParser_init
    /\ dec = DecIdle
    /\ emt = EmtIdle
    /\ proc = ProcIdle
    /\ plot = PlotIdle

\* fn.r holds the swizzled byte before and the deswizzled byte after.
ApplyUnSwizzle ==
    /\ fn.stage = "in"
    /\ fn' = [fn EXCEPT !.stage = "out", !.r = un_swizzle_byte(fn.r, fn.m)]
    /\ UNCHANGED <<args, file, rdr, pkt, acks_expected, fed, pc, loads,
                   emitted, scan, start, prs, dec, emt, proc, plot>>

NextSwz == ApplyUnSwizzle

SpecSwz == InitSwz /\ [][NextSwz]_vars

(***************************************************************************)
(* The parser on its own: a parser as RdParser.__init__ leaves it, driven  *)
(* by calls of step and by entries of a state through _enter_state (with   *)
(* param_list set first for decode_parameters, as the dispatch of a spec   *)
(* list does), until an exception ends the run.                            *)
(***************************************************************************)
\* The bytes stepped: data bytes, sub-opcodes, the root opcodes of CT above
\* and 0xFE, which is in no table.
StepBytes == {0, 1, 80, 136, 165, 198, 215, 218, 254}

\* The spec lists a dispatch can hand to decode_parameters.
Lists == {CT[136], CT_C6[1], CT_DA[0], MT_IO_ENABLE}

InitPrs ==
    /\ args \in {a \in Args : a.magic = None /\ ~a.on_the_fly}
    /\ file = <<>>
    /\ rdr = RdrInit
    /\ pkt = PktInit
    /\ acks_expected = 0
    /\ fed = <<>>
    /\ pc = "prs"
    /\ loads = <<>>
    /\ emitted = <<>>
    /\ scan = ScanInit
    /\ start = 0
    /\ fn = FnIdle
    /\ prs = RdParser_init
    /\ dec = DecIdle
    /\ emt = EmtIdle
    /\ proc = ProcIdle
    /\ plot = PlotIdle

\* The parser at the start of an operation op: nothing written or returned
\* yet.
Begin(p, op) ==
    [p EXCEPT !.out = <<>>, !.ret = NoneStr, !.from = p.state,
              !.hist = Append(@, op)]

ParserStep ==
    /\ pc = "prs"
    /\ prs.exc = "none"
    /\ Len(prs.hist) < MaxSteps
    /\ \E b \in StepBytes, r \in BOOLEAN :
         prs' = step(Begin(prs, [op |-> "step", b |-> b, s |-> ""]), b, r, 0)
    /\ UNCHANGED <<args, file, rdr, pkt, acks_expected, fed, pc, loads,
                   emitted, scan, start, fn, dec, emt, proc, plot>>

ParserEnter ==
    /\ pc = "prs"
    /\ prs.exc = "none"
    /\ Len(prs.hist) < MaxSteps
    /\ \E s \in STATES :
         \E e \in (IF s = "decode_parameters" THEN Lists ELSE {prs.param_list}) :
            prs' = enter_state(
                       [Begin(prs, [op |-> "enter", b |-> 0, s |-> s])
                            EXCEPT !.param_list = e], s)
    /\ UNCHANGED <<args, file, rdr, pkt, acks_expected, fed, pc, loads,
                   emitted, scan, start, fn, dec, emt, proc, plot>>

\* The diagnostics of the protocol-table errors of the dispatch handlers.
ProtocolLines ==
    {"INT:FTL:Unsupprted or unexpected type in command.",
     "INT:FTL:Too many sub-levels for sub-command"}

\* RdaEmitter.protocol(message), as the handlers call it for a table entry
\* they cannot dispatch.
EmitterProtocol ==
    /\ pc = "prs"
    /\ prs.exc = "none"
    /\ Len(prs.hist) < MaxSteps
    /\ \E l \in ProtocolLines :
         prs' = rda_protocol(Begin(prs, [op |-> "protocol", b |-> 0, s |-> l]), l)
    /\ UNCHANGED <<args, file, rdr, pkt, acks_expected, fed, pc, loads,
                   emitted, scan, start, fn, dec, emt, proc, plot>>

NextPrs == ParserStep \/ ParserEnter \/ EmitterProtocol

SpecPrs == InitPrs /\ [][NextPrs]_vars

(***************************************************************************)
(* The vocabulary of the properties, stated on the records of the file     *)
(* and not through the operators above.                                    *)
(***************************************************************************)
ReplyRec(rec) == rec.from_port \in {40200, 40207}

HostRec(rec) == ~ReplyRec(rec)

ListenRec(rec) == rec.to_port \in {40200, 50200}

\* The payload without the checksum field of a host packet.
BodyOf(rec) ==
    IF ReplyRec(rec) THEN rec.data
    ELSE [j \in 1..(Len(rec.data) - Min(2, Len(rec.data))) |-> rec.data[j + 2]]

\* The big-endian value of the checksum field (of the bytes there are of it).
FieldOf(rec) ==
    IF Len(rec.data) >= 2 THEN rec.data[1] * 256 + rec.data[2]
    ELSE IF Len(rec.data) = 1 THEN rec.data[1]
    ELSE 0

\* The sum of the bytes s[lo], ..., s[hi].
RECURSIVE ByteSum(_, _, _)
ByteSum(s, lo, hi) ==
    IF lo > hi THEN 0
    ELSE IF lo = hi THEN s[lo]
    ELSE ByteSum(s, lo, (lo + hi) \div 2) + ByteSum(s, (lo + hi) \div 2 + 1, hi)

BodySum(rec) == ByteSum(BodyOf(rec), 1, Len(BodyOf(rec)))

MismatchRec(rec) ==
    HostRec(rec) /\ FieldOf(rec) # BodySum(rec) % 65536

\* d is the body of rec as exposed under magic m: deswizzled byte by byte
\* when the record is addressed to a listen port, unchanged otherwise.
ExposedAs(d, rec, m) ==
    /\ Len(d) = Len(BodyOf(rec))
    /\ \A j \in 1..Len(d) :
         IF ListenRec(rec) THEN swizzle(d[j], m) = BodyOf(rec)[j]
         ELSE d[j] = BodyOf(rec)[j]

\* A handshake packet: a reply of length 1.
HandshakeRec(rec) == ReplyRec(rec) /\ Len(rec.data) = 1

Count(s, x) == Cardinality({i \in 1..Len(s) : s[i] = x})

IsPrefix(s, t) == Len(s) <= Len(t) /\ \A i \in 1..Len(s) : s[i] = t[i]

\* The parser calls as (byte, is_reply) pairs.
FedBytes == [i \in 1..Len(fed) |-> <<fed[i].b, fed[i].is_reply>>]

\* What a record contributes to the parser's input under magic m.
Contribution(rec, m) ==
    IF HandshakeRec(rec) THEN <<>>
    ELSE LET d == IF m = None THEN PayloadData(rec.data, ReplyRec(rec))
                  ELSE ExposedData(rec.data, rec.to_port, rec.from_port, m)
         IN [j \in 1..Len(d) |-> <<d[j], ReplyRec(rec)>>]

\* The contributions of the records after the first n, in record order.
RECURSIVE ExpectedFeed(_, _)
ExpectedFeed(n, m) ==
    IF n >= Len(file) THEN <<>>
    ELSE Contribution(file[n + 1], m) \o ExpectedFeed(n + 1, m)

(***************************************************************************)
(* C1.  Byte-order preservation: at every moment the bytes passed to       *)
(* parser.step, with their is_reply flags, are a prefix of the             *)
(* concatenation, in record order, of the exposed payloads of the records  *)
(* decode started from that are not handshakes, and they are all of it     *)
(* when decode returns: nothing dropped, duplicated or reordered.          *)
(***************************************************************************)
C1_ByteOrder ==
    /\ IsPrefix(FedBytes, ExpectedFeed(start, pkt.magic))
    /\ pc = "done" => FedBytes = ExpectedFeed(start, pkt.magic)

(***************************************************************************)
(* C2.  Deswizzle round trip: un_swizzle_byte with magic m applied to      *)
(* swizzle(b, m) gives b back, a value in 0..255, for every byte b and     *)
(* every magic m.                                                          *)
(***************************************************************************)
C2_RoundTrip ==
    fn.stage = "out" => (fn.r = fn.b /\ fn.r \in 0..255)

\* The round trip through the byte whose swizzled form wraps to 0, and
\* through one whose bits 0 and 7 differ.
C2_Witness ==
    /\ fn.stage = "out"
    /\ swizzle(fn.b, fn.m) = 0
    /\ fn.b % 2 # fn.b \div 128
    /\ fn.r = fn.b

(***************************************************************************)
(* C3.  Which bytes are deswizzled.  As stated: the exposed data of a      *)
(* loaded host packet is un_swizzle_byte applied to each raw byte after    *)
(* the first two, and the exposed data of a loaded reply is its raw        *)
(* payload unchanged.                                                      *)
(***************************************************************************)
C3_AsStated ==
    \A i \in 1..Len(loads) :
        loads[i].complete /\ pkt.magic # None =>
            LET rec == file[loads[i].src]
                d == loads[i].data
            IN /\ Len(d) = Len(BodyOf(rec))
               /\ \A j \in 1..Len(d) :
                    IF HostRec(rec) THEN swizzle(d[j], pkt.magic) = BodyOf(rec)[j]
                    ELSE d[j] = rec.data[j]

(***************************************************************************)
(* C3, amended.  The direction of a packet decides only whether its first  *)
(* two bytes are a checksum field and are dropped; the bytes that remain   *)
(* are deswizzled exactly when the packet is addressed to port 40200 or    *)
(* 50200, whichever its direction, and are exposed unchanged otherwise.    *)
(***************************************************************************)
C3_DeswizzledByDestination ==
    \A i \in 1..Len(loads) :
        loads[i].complete =>
            /\ ExposedAs(loads[i].data, file[loads[i].src], pkt.magic)
            /\ loads[i].swizzled = ListenRec(file[loads[i].src])
            /\ loads[i].reply = ReplyRec(file[loads[i].src])

\* A reply addressed to a listen port is loaded, its byte changed by the
\* deswizzle step, after a host packet addressed to another port gave the
\* parser a byte of its body as it is in the record.
C3_Witness ==
    /\ \E i \in 1..Len(loads) :
         /\ loads[i].complete /\ loads[i].reply /\ loads[i].swizzled
         /\ loads[i].data # file[loads[i].src].data
    /\ \E i \in 1..Len(fed) :
         /\ HostRec(file[fed[i].src]) /\ ~ListenRec(file[fed[i].src])
         /\ fed[i].b = BodyOf(file[fed[i].src])[fed[i].take]

(***************************************************************************)
(* C4.  Checksum predicate: for a host packet chk_ok holds exactly when    *)
(* the big-endian value of the first two raw payload bytes equals the sum, *)
(* modulo 65536, of the raw bytes after them; for a reply chk_ok holds     *)
(* and no byte is removed from the payload.                                *)
(***************************************************************************)
C4_ChecksumPredicate ==
    \A i \in 1..Len(loads) :
        LET rec == file[loads[i].src]
        IN IF HostRec(rec)
           THEN loads[i].chk_ok = ~MismatchRec(rec)
           ELSE /\ loads[i].chk_ok
                /\ loads[i].complete => Len(loads[i].data) = Len(rec.data)

\* A host packet whose body sums past 65535 was loaded and accepted.
C4_Witness ==
    /\ Len(loads) = 1
    /\ HostRec(file[1])
    /\ BodySum(file[1]) >= 65536
    /\ loads[1].chk_ok
    /\ loads[1].complete

(***************************************************************************)
(* C5.  A checksum mismatch is not terminal without --stop-on-error: in    *)
(* every decode step, each host packet loaded with a mismatching checksum  *)
(* produces exactly one error line, the error never cuts its load short,   *)
(* its exposed data is its deswizzled body, and when the step hands one of *)
(* its bytes on, that byte reaches the parser; decoding stays open to the  *)
(* records that follow.                                                    *)
(***************************************************************************)
C5_MismatchNotTerminal ==
    [][(pc = "decode" /\ ~args.stop_on_error) =>
          /\ Count(emitted', "ERR:Checksum mismatch")
               = Cardinality({i \in 1..Len(loads') : MismatchRec(file[loads'[i].src])})
          /\ \A i \in 1..Len(loads') :
               MismatchRec(file[loads'[i].src]) =>
                  /\ pc' = "aborted" => loads'[i].complete
                  /\ loads'[i].complete =>
                        ExposedAs(loads'[i].data, file[loads'[i].src], pkt'.magic)
          /\ (pc' = "decode" /\ MismatchRec(file[pkt'.cur])) =>
                /\ Len(fed') = Len(fed) + 1
                /\ fed'[Len(fed')].src = pkt'.cur
                /\ fed'[Len(fed')].b = pkt'.data[pkt'.take]
    ]_vars

\* Without --stop-on-error a host packet with a mismatching checksum gave
\* its byte to the parser, a byte of the record after it followed, and
\* decode ran to the end of the stream.
C5_Witness ==
    /\ ~args.stop_on_error
    /\ Len(file) = 2
    /\ MismatchRec(file[1])
    /\ \E i, j \in 1..Len(fed) : i < j /\ fed[i].src = 1 /\ fed[j].src = 2
    /\ pc = "done"

\* A reply of length 1 whose byte, as exposed under magic m, is ACK (0xCC).
AckRec(rec, m) ==
    /\ HandshakeRec(rec)
    /\ IF ListenRec(rec) THEN m # None /\ swizzle(204, m) = rec.data[1]
       ELSE rec.data[1] = 204

\* The change of acks_expected that processing the record calls for.
Delta(rec, m) ==
    IF HostRec(rec) THEN 1 ELSE IF AckRec(rec, m) THEN -1 ELSE 0

\* The changes called for by the first n packets s holds, those whose load
\* was cut short left out.
RECURSIVE DeltaOfLoads(_, _, _)
DeltaOfLoads(s, n, m) ==
    IF n = 0 THEN 0
    ELSE DeltaOfLoads(s, n - 1, m)
         + (IF s[n].complete THEN Delta(file[s[n].src], m) ELSE 0)

(***************************************************************************)
(* C6.  Handshake tracker transition relation: every decode step changes   *)
(* acks_expected by the sum, over the packets it read from the source and  *)
(* loaded, of +1 for a host-direction packet whatever its payload length,  *)
(* -1 for a reply of length 1 whose byte is ACK, and 0 for any other       *)
(* packet.                                                                 *)
(***************************************************************************)
C6_TransitionRelation ==
    [][pc = "decode" =>
          acks_expected' - acks_expected
              = DeltaOfLoads(loads', Len(loads'), pkt'.magic)
    ]_vars

(***************************************************************************)
(* C7.  acks_expected is non-negative in every reachable state.            *)
(***************************************************************************)
C7_NonNegative == acks_expected >= 0

\* The count of host packets still unacknowledged after the records past
\* the first n, from the count bal; None when an ACK comes with none
\* outstanding.
RECURSIVE Outstanding(_, _, _)
Outstanding(n, m, bal) ==
    IF n >= Len(file) THEN bal
    ELSE LET rec == file[n + 1]
         IN IF HostRec(rec) THEN Outstanding(n + 1, m, bal + 1)
            ELSE IF AckRec(rec, m)
            THEN (IF bal = 0 THEN None ELSE Outstanding(n + 1, m, bal - 1))
            ELSE Outstanding(n + 1, m, bal)

\* Every host packet is followed by exactly one ACK of its own and no ACK
\* comes without an unacknowledged host packet before it.
WellFormed == Outstanding(start, pkt.magic, 0) = 0

(***************************************************************************)
(* C8.  For a well-formed capture acks_expected is 0 when decode reaches   *)
(* the end of the stream.                                                  *)
(***************************************************************************)
C8_WellFormedEndsAtZero ==
    (pc = "done" /\ WellFormed) => acks_expected = 0

\* RdPacket.handshake, and the flag each loaded packet was given, is true
\* exactly for a reply of length 1, and no parser call carries a byte of one.
C9_CurrentPacket ==
    /\ pkt.handshake = (pkt.cur # 0 /\ HandshakeRec(file[pkt.cur]))
    /\ \A i \in 1..Len(loads) :
         loads[i].complete => loads[i].handshake = HandshakeRec(file[loads[i].src])
    /\ \A i \in 1..Len(fed) : ~HandshakeRec(file[fed[i].src])

\* A decode step that obtains a byte passes nothing to the parser when the
\* byte is of a length-1 reply and passes exactly that byte, with the flag
\* of its packet, when it is of any other packet.
C9_EveryOtherByteIsPassed ==
    [][(pc = "decode" /\ pc' = "decode") =>
          IF HandshakeRec(file[pkt'.cur]) THEN fed' = fed
          ELSE /\ Len(fed') = Len(fed) + 1
               /\ \A i \in 1..Len(fed) : fed'[i] = fed[i]
               /\ fed'[Len(fed')].src = pkt'.cur
               /\ fed'[Len(fed')].b = pkt'.data[pkt'.take]
               /\ fed'[Len(fed')].is_reply = ReplyRec(file[pkt'.cur])
    ]_vars

(***************************************************************************)
(* C9.  Handshake classification: RdPacket.handshake is true exactly when  *)
(* the current packet is a reply of length 1; parser.step is never called  *)
(* with a byte of a length-1 reply, and every byte decode obtains from any *)
(* other packet is passed to parser.step.                                  *)
(***************************************************************************)
C9_HandshakeClassification ==
    []C9_CurrentPacket /\ C9_EveryOtherByteIsPassed

\* Decode ran to the end of a capture holding a length-1 reply and a host
\* packet of exposed length 1: the host byte reached the parser and the
\* reply byte did not.
C9_Witness ==
    /\ pc = "done"
    /\ pkt.cur # 0
    /\ \E i \in 1..Len(file) : HandshakeRec(file[i])
    /\ \E i \in 1..Len(fed) :
         /\ HostRec(file[fed[i].src])
         /\ Len(BodyOf(file[fed[i].src])) = 1
    /\ Len(fed) = Len(ExpectedFeed(start, pkt.magic))

(***************************************************************************)
(* C10.  Magic discovery scan budget: a scan for the magic looks up at     *)
(* most four length-1 reply candidates and never a fifth; after four whose *)
(* byte is not in the lookup table it has failed.                          *)
(***************************************************************************)
C10_ScanBudget ==
    scan.ran => scan.examined <= 4

(***************************************************************************)
(* C11.  Magic discovery never ends silently without a magic: whenever     *)
(* set_magic has returned normally (the analyzer is decoding or has        *)
(* finished) the magic is a byte value, and no packet load is ever broken  *)
(* off by a deswizzle with the magic unset.                                *)
(***************************************************************************)
C11_NeverSilentWithoutMagic ==
    /\ pc \in {"decode", "done"} => pkt.magic \in 0..255
    /\ pc # "crashed"

\* The reader after a successful discovery on a file source is at the
\* start of the file; its line number is the count of records read since,
\* and decode ends with every record read.
C12_Rewound ==
    (scan.outcome = "found" /\ ~args.on_the_fly) =>
        /\ start = 0
        /\ rdr.line_number = rdr.pos
        /\ pc = "done" => rdr.pos = Len(file)

\* After such a discovery every decode step loads the records that follow
\* the last one read, in file order, none skipped and none twice.
C12_OneByOne ==
    [][(pc = "decode" /\ scan.outcome = "found" /\ ~args.on_the_fly) =>
          /\ \A i \in 1..Len(loads') : loads'[i].src = rdr.pos + i
          /\ rdr'.pos \in {rdr.pos + Len(loads'), rdr.pos + Len(loads') + 1}
          /\ rdr'.pos = rdr.pos + Len(loads') + 1 => pc' = "aborted"
    ]_vars

(***************************************************************************)
(* C12.  Replay after discovery (file sources): after a successful magic   *)
(* discovery the reader is rewound, so the decode that follows processes   *)
(* every record of the file exactly once starting with the first, those    *)
(* read during discovery included, and the line number restarts at 1.      *)
(***************************************************************************)
C12_ReplayAfterDiscovery ==
    []C12_Rewound /\ C12_OneByOne

\* Discovery read past a host packet to find the ACK behind it; decode then
\* ran to the end of the file and gave the parser that host packet's byte.
C12_Witness ==
    /\ scan.outcome = "found" /\ ~args.on_the_fly
    /\ pc = "done"
    /\ Len(file) >= 2
    /\ HostRec(file[1])
    /\ \E i \in 1..Len(fed) : fed[i].src = 1
    /\ rdr.line_number = Len(file)

(***************************************************************************)
(* SpecDec: a parameter decoder on its own, an RdDecoder primed with a     *)
(* spec and stepped byte by byte the way _st_decode_parameters steps it    *)
(* (no remaining argument), until an exception ends the run.  since lists  *)
(* the bytes stepped since the last prime; out and ret are what the last   *)
(* call wrote and returned.                                                *)
(***************************************************************************)
MaxDecOps == 8

\* The specs primed: the seven primitive types, a spec whose decoder has no
\* rd_ method, the string specs and the read-to-end type.
DecSpecs ==
    {"INT7", "UINT7", "BOOL7", "INT14", "UINT14", "INT35", "UINT35",
     "PARSE_POWER", "CSTRING", "FNAME", "ENAME", "TBD"}

PrimitiveSpecs == {"INT7", "UINT7", "BOOL7", "INT14", "UINT14", "INT35", "UINT35"}

\* The bytes stepped at a position of the parameter: data bytes with and
\* without bit 6, and 0xC8, which has bit 7 set.
DecBytes(d) ==
    LET pos == Len(d.decoder.data) + 1
    IN IF d.decoder.length = 5
       THEN IF pos = 1
            THEN (IF d.decoder.spec = "UINT35" THEN {0, 1, 3} ELSE {0, 1, 64, 65})
            ELSE IF pos = 2 THEN {0, 127, 200}
            ELSE IF pos <= 5 THEN {0, 127}
            ELSE {0}
       ELSE IF pos <= 2 THEN {0, 1, 64, 65, 127, 200}
       ELSE {0}

RdDecoder_init ==
    [decoder |-> DecoderInit, out |-> <<>>, exc |-> "none", ret |-> NoneStr,
     since |-> <<>>, ops |-> 0, last |-> "init"]

InitDec ==
    /\ args \in {a \in Args : a.magic = None /\ ~a.on_the_fly}
    /\ file = <<>>
    /\ rdr = RdrInit
    /\ pkt = PktInit
    /\ acks_expected = 0
    /\ fed = <<>>
    /\ pc = "dec"
    /\ loads = <<>>
    /\ emitted = <<>>
    /\ scan = ScanInit
    /\ start = 0
    /\ fn = FnIdle
    /\ prs = RdParser_init
    /\ dec = RdDecoder_init
    /\ emt = EmtIdle
    /\ proc = ProcIdle
    /\ plot = PlotIdle

DecCanCall == pc = "dec" /\ dec.exc = "none" /\ dec.ops < MaxDecOps

DecBegin(d, op) ==
    [d EXCEPT !.out = <<>>, !.ret = NoneStr, !.ops = @ + 1, !.last = op]

DecRest ==
    UNCHANGED <<args, file, rdr, pkt, acks_expected, fed, pc, loads,
                emitted, scan, start, fn, prs, emt, proc, plot>>

\* decoder.prime(spec).
DecPrime ==
    /\ DecCanCall
    /\ \E spec \in DecSpecs :
         dec' = prime([DecBegin(dec, "prime") EXCEPT !.since = <<>>], spec)
    /\ DecRest

\* decoder.step(datum).
DecStep ==
    /\ DecCanCall
    /\ Len(dec.decoder.data) <= Max(dec.decoder.length, 1)
    /\ \E b \in DecBytes(dec) :
         LET r == decoder_step([DecBegin(dec, "step") EXCEPT !.since = Append(@, b)],
                               b, None)
         IN dec' = [r.p EXCEPT !.ret = r.dret]
    /\ DecRest

NextDec == DecPrime \/ DecStep

SpecDec == InitDec /\ [][NextDec]_vars

(***************************************************************************)
(* SpecEmt: an emitter on its own, RdaEmitter (src/rda_emitter.py) or      *)
(* RpaEmitter (src/rpa_emitter.py), receiving the calls a decode makes.    *)
(* RdaEmitter writes bare lines to out; RpaEmitter prefixes each line with *)
(* its packet, command and message numbers (lines).  The code that numbers *)
(* the commands, the caller of set_cmd_n, is not in src/: command_done     *)
(* follows the specification's "increment once per decoded line".          *)
(***************************************************************************)
MaxCalls == 4

\* RdaEmitter.fatal: RuntimeError, nothing written.
rda_fatal(p, line) == [p EXCEPT !.exc = "RuntimeError"]

rpa_set_pkt_n(e, n) == [e EXCEPT !.pkt_n = n]

\* RpaEmitter.set_cmd_n without "self.cmd_n = cmd_n".
rpa_set_cmd_n_no_store(e, n) == [e EXCEPT !.msg_n = 1]

rpa_set_cmd_n(e, n) == [e EXCEPT !.cmd_n = n, !.msg_n = 1]

\* RpaEmitter.write: the line with its prefix, and _msg_n advanced.
rpa_write(e, chan, text) ==
    [e EXCEPT !.lines = Append(@, [pkt |-> e.pkt_n, cmd |-> e.cmd_n,
                                   msg |-> e.msg_n, chan |-> chan,
                                   text |-> text]),
              !.msg_n = @ + 1]

\* RpaEmitter.pause: input() returns what the operator typed.
rpa_pause(e, typed) ==
    IF typed = "quit" THEN [e EXCEPT !.exc = "KeyboardInterrupt"] ELSE e

rpa_reader(e, text) == rpa_write(e, "PRT:RDR", text)

rpa_parser(e, text, typed) ==
    LET e1 == rpa_write(e, "PRT:PRS", text)
    IN IF e.step_decode THEN rpa_pause(e1, typed) ELSE e1

rpa_error(e, text, typed) ==
    LET e1 == rpa_write(e, "PRT:ERR", text)
    IN IF args.stop_on_error THEN rpa_pause(e1, typed) ELSE e1

rpa_fatal(e, text) == [e EXCEPT !.exc = "RuntimeError"]

\* A command completed by the parser: the next command number, then the
\* decoded line.
command_done(e, text, typed) ==
    rpa_parser(rpa_set_cmd_n(e, e.cmd_n + 1), text, typed)

Typed == {"", "quit"}

EmitterInit(kind, step_decode) ==
    [kind |-> kind, step_decode |-> step_decode, pkt_n |-> 0, cmd_n |-> 0,
     msg_n |-> 0, lines |-> <<>>, out |-> <<>>, exc |-> "none", hist |-> <<>>]

InitEmt ==
    /\ args \in {a \in Args : a.magic = None /\ ~a.on_the_fly}
    /\ file = <<>>
    /\ rdr = RdrInit
    /\ pkt = PktInit
    /\ acks_expected = 0
    /\ fed = <<>>
    /\ pc = "emt"
    /\ loads = <<>>
    /\ emitted = <<>>
    /\ scan = ScanInit
    /\ start = 0
    /\ fn = FnIdle
    /\ prs = RdParser_init
    /\ dec = DecIdle
    /\ emt \in {EmitterInit(k, sd) : k \in {"rda", "rpa"}, sd \in BOOLEAN}
    /\ proc = ProcIdle
    /\ plot = PlotIdle

Called(e, op) == [e EXCEPT !.hist = Append(@, op)]

EmtCanCall == pc = "emt" /\ emt.exc = "none" /\ Len(emt.hist) < MaxCalls

EmtRest ==
    UNCHANGED <<args, file, rdr, pkt, acks_expected, fed, pc, loads,
                emitted, scan, start, fn, prs, dec, proc, plot>>

\* The reader numbers a packet and reports it.
EmtPacket ==
    /\ EmtCanCall
    /\ emt.kind = "rpa"
    /\ emt' = rpa_reader(rpa_set_pkt_n(Called(emt, "packet"), emt.pkt_n + 1),
                         "Interval")
    /\ EmtRest

\* A command is decoded.
EmtCommand ==
    /\ EmtCanCall
    /\ emt.kind = "rpa"
    /\ \E typed \in Typed : emt' = command_done(Called(emt, "command"), "EOF", typed)
    /\ EmtRest

\* out.error(message).
EmtError ==
    /\ EmtCanCall
    /\ \E typed \in Typed :
         emt' = IF emt.kind = "rpa"
                THEN rpa_error(Called(emt, "error"), "Datum is a command", typed)
                ELSE rda_error(Called(emt, "error"), "PRT:ERR:Datum is a command")
    /\ EmtRest

\* out.fatal(message).
EmtFatal ==
    /\ EmtCanCall
    /\ emt' = IF emt.kind = "rpa"
              THEN rpa_fatal(Called(emt, "fatal"), "Command table")
              ELSE rda_fatal(Called(emt, "fatal"), "INT:FTL:Command table")
    /\ EmtRest

NextEmt == EmtPacket \/ EmtCommand \/ EmtError \/ EmtFatal

SpecEmt == InitEmt /\ [][NextEmt]_vars

(***************************************************************************)
(* The entry points: main of src/cpa.py and of src/rpa.py, from the        *)
(* construction of the analyzer to the exit of the process.  What the      *)
(* analyzer's constructor and decode do to main is how they end: by        *)
(* returning, or with the exception an emitter method, the operator or the *)
(* parser raised.                                                          *)
(***************************************************************************)
Entries == {"cpa", "rpa"}

\* The ways RuidaProtocolAnalyzer(args, input, output) ends: set_magic
\* scans only when no magic is given, and the scan can end in
\* out.shutdown or in the reader's out.fatal.
ConstructOutcomes(a) ==
    {[by |-> "return", exc |-> "none"]}
    \cup (IF a.magic = None
          THEN {[by |-> "shutdown", exc |-> "SyntaxError"],
                [by |-> "fatal", exc |-> "RuntimeError"]}
          ELSE {})

\* The ways analyzer.decode() ends.
DecodeOutcomes(a) ==
    {[by |-> "return", exc |-> "none"],
     [by |-> "fatal", exc |-> "RuntimeError"],
     [by |-> "interrupt", exc |-> "KeyboardInterrupt"],
     [by |-> "parser", exc |-> "TypeError"],
     [by |-> "parser", exc |-> "IndexError"]}
    \cup (IF a.magic = None
          THEN {[by |-> "shutdown", exc |-> "SyntaxError"]}
          ELSE {})
    \cup (IF a.stop_on_error
          THEN {[by |-> "error", exc |-> "SyntaxError"]}
          ELSE {})

\* The except clause that catches exc: IndexError is a LookupError, and
\* TypeError is caught as Exception.
Clause(exc) ==
    CASE exc = "none" -> "else"
      [] exc = "IndexError" -> "LookupError"
      [] exc \in {"SyntaxError", "RuntimeError", "KeyboardInterrupt"} -> exc
      [] OTHER -> "Exception"

\* main of cpa.py from the try statement on: the lines written and the
\* exit status; only the Exception clause calls exit(1).
cpa_main(exc) ==
    CASE Clause(exc) = "else" ->
             [lines |-> <<"INT:INF:Decode complete.">>, status |-> 0]
      [] Clause(exc) = "LookupError" ->
             [lines |-> <<"INT:CRT:", "INT:CRT:Verify incoming data">>,
              status |-> 0]
      [] Clause(exc) = "SyntaxError" ->
             [lines |-> <<"INT:CRT:">>, status |-> 0]
      [] Clause(exc) = "RuntimeError" ->
             [lines |-> <<"INT:CRT:Shutting down">>, status |-> 0]
      [] Clause(exc) = "KeyboardInterrupt" ->
             [lines |-> <<"INT:INF:Exiting at user request.">>, status |-> 0]
      [] Clause(exc) = "Exception" ->
             [lines |-> <<"vrb:Unhandled exception">>, status |-> 1]

\* main of rpa.py from the try statement on.
rpa_main(exc) ==
    CASE Clause(exc) = "else" ->
             [lines |-> <<"INT:INF:Decode complete.">>, status |-> 0]
      [] Clause(exc) = "LookupError" ->
             [lines |-> <<"INT:CRT:", "INT:CRT:Verify incoming data">>,
              status |-> 1]
      [] Clause(exc) = "SyntaxError" ->
             [lines |-> <<"INT:CRT:">>, status |-> 1]
      [] Clause(exc) = "RuntimeError" ->
             [lines |-> <<"INT:CRT:Shutting down">>, status |-> 1]
      [] Clause(exc) = "KeyboardInterrupt" ->
             [lines |-> <<"INT:INF:Exiting at user request.">>, status |-> 0]
      [] Clause(exc) = "Exception" ->
             [lines |-> <<"INT:CRT:Unhandled error">>, status |-> 1]

\* An exception no clause catches ends the process with the traceback and
\* status 1.
Uncaught == [lines |-> <<"Traceback">>, status |-> 1]

ProcInit(entry) ==
    [entry |-> entry, at |-> "start", by |-> "return", exc |-> "none",
     during |-> "none", lines |-> <<>>, status |-> None]

InitMain ==
    /\ args \in Args
    /\ file = <<>>
    /\ rdr = RdrInit
    /\ pkt = PktInit
    /\ acks_expected = 0
    /\ fed = <<>>
    /\ pc = "main"
    /\ loads = <<>>
    /\ emitted = <<>>
    /\ scan = ScanInit
    /\ start = 0
    /\ fn = FnIdle
    /\ prs = RdParser_init
    /\ dec = DecIdle
    /\ emt = EmtIdle
    /\ proc \in {ProcInit(e) : e \in Entries}
    /\ plot = PlotIdle

MainRest ==
    UNCHANGED <<args, file, rdr, pkt, acks_expected, fed, pc, loads,
                emitted, scan, start, fn, prs, dec, emt, plot>>

\* "analyzer = rpa.RuidaProtocolAnalyzer(args, input, output)", before the
\* try statement.
MainConstruct ==
    /\ pc = "main"
    /\ proc.at = "start"
    /\ \E o \in ConstructOutcomes(args) :
         proc' = IF o.exc = "none"
                 THEN [proc EXCEPT !.at = "try"]
                 ELSE [proc EXCEPT !.at = "exited", !.by = o.by,
                                   !.exc = o.exc, !.during = "construct",
                                   !.lines = Uncaught.lines,
                                   !.status = Uncaught.status]
    /\ MainRest

\* "analyzer.decode()" inside the try statement.
MainDecode ==
    /\ pc = "main"
    /\ proc.at = "try"
    /\ \E o \in DecodeOutcomes(args) :
         proc' = [proc EXCEPT !.at = "except", !.by = o.by, !.exc = o.exc,
                              !.during = "decode"]
    /\ MainRest

\* The rest of the try statement and the end of the process.
MainExit ==
    /\ pc = "main"
    /\ proc.at = "except"
    /\ LET r == IF proc.entry = "cpa" THEN cpa_main(proc.exc)
                ELSE rpa_main(proc.exc)
       IN proc' = [proc EXCEPT !.at = "exited", !.lines = r.lines,
                               !.status = r.status]
    /\ MainRest

NextMain == MainConstruct \/ MainDecode \/ MainExit

SpecMain == InitMain /\ [][NextMain]_vars

(***************************************************************************)
(* SpecFlat: the flat analyzer (src/ruida_analyzer.py), whose reader and   *)
(* packet differ from the package's.  Its emitter is one that has the      *)
(* methods the flat code calls; error() raises in strict mode.  In this    *)
(* specification acks_expected holds the boolean self.expect_ack.          *)
(***************************************************************************)
\* The flat reader splits the time stamp of the line before anything else:
\* on the empty line of the end of input "_ts[2]" raises IndexError, so ret
\* is "crashed" there, and otherwise "ok" or "fatal" (the length mismatch).
Flat_UdpDumpReader_next_packet(r) ==
    IF r.pos >= Len(file)
    THEN [rdr |-> [r EXCEPT !.line_number = @ + 1], ret |-> "crashed"]
    ELSE LET rec == file[r.pos + 1]
             r2 == [r EXCEPT !.pos = @ + 1,
                             !.line_number = @ + 1,
                             !.to_port = rec.to_port,
                             !.from_port = rec.from_port,
                             !.length = rec.udp_length - 8,
                             !.data = rec.data]
         IN [rdr |-> r2,
             ret |-> IF Len(r2.data) # r2.length THEN "fatal" ELSE "ok"]

Flat_UdpDumpReader_reset(r) == [r EXCEPT !.pos = 0, !.line_number = 0]

\* The statistics block assigns self.handshake for a reply only.
Flat_handshake(old, reply, length) ==
    IF reply THEN length = 1 ELSE old

Flat_RdPacket_next_packet(S) ==
    LET n == Flat_UdpDumpReader_next_packet(S.rdr)
    IN
    IF n.ret = "crashed" THEN [S EXCEPT !.rdr = n.rdr, !.st = "crashed"]
    ELSE IF n.ret = "fatal" THEN [S EXCEPT !.rdr = n.rdr, !.st = "aborted"]
    ELSE
    LET r == n.rdr
        swz == IsSwizzled(r.to_port)
        rep == IsReply(r.from_port)
        _data == PayloadData(r.data, rep)
        ok == ChkOk(r.data, rep)
        em1 == IF ok THEN S.em ELSE Append(S.em, "ERR:Checksum mismatch")
        p1 == [S.pkt EXCEPT !.new_packet = TRUE, !.swizzled = swz,
                            !.reply = rep, !.chk_ok = ok, !.src = r.pos]
    IN
    IF ~ok /\ error_raises
    THEN [S EXCEPT !.rdr = r, !.pkt = p1, !.em = em1, !.st = "aborted",
                   !.lds = Append(@, Snapshot(p1, FALSE))]
    ELSE IF swz /\ S.pkt.magic = None /\ _data # <<>>
    THEN LET p2 == [p1 EXCEPT !.data = <<>>]
         IN [S EXCEPT !.rdr = r, !.pkt = p2, !.em = em1, !.st = "crashed",
                      !.lds = Append(@, Snapshot(p2, FALSE))]
    ELSE
    LET d == ExposedData(r.data, r.to_port, r.from_port, S.pkt.magic)
        p2 == [p1 EXCEPT !.data = d, !.length = Len(d),
                         !.handshake =
                             Flat_handshake(S.pkt.handshake, rep, Len(d)),
                         !.take = 0, !.cur = r.pos]
    IN [S EXCEPT !.rdr = r, !.pkt = p2, !.em = em1, !.ret = Len(d),
                 !.lds = Append(@, Snapshot(p2, TRUE))]

\* The discovery loop of the flat set_magic: it ignores what next_packet
\* returns, and ends with the magic found, with shutdown() or with the
\* reader's raise.
RECURSIVE Flat_Discover(_, _)
Flat_Discover(r, tries) ==
    LET n == Flat_UdpDumpReader_next_packet(r)
    IN
    IF n.ret # "ok"
    THEN [rdr |-> n.rdr, magic |-> None, outcome |-> n.ret]
    ELSE IF n.rdr.from_port = CANDIDATE_PORT /\ n.rdr.length = 1
    THEN LET _r == n.rdr.data[1]
         IN IF _r \in DOMAIN MAGIC_LUT
            THEN [rdr |-> n.rdr, magic |-> MAGIC_LUT[_r], outcome |-> "found"]
            ELSE IF tries # 0
            THEN Flat_Discover(n.rdr, tries - 1)
            ELSE [rdr |-> n.rdr, magic |-> None, outcome |-> "shutdown"]
    ELSE Flat_Discover(n.rdr, tries)

Flat_set_magic(S, magic) ==
    IF magic = None
    THEN LET d == Flat_Discover(Flat_UdpDumpReader_reset(S.rdr), TRIES)
         IN CASE d.outcome = "found" ->
                   [S EXCEPT !.rdr = Flat_UdpDumpReader_reset(d.rdr),
                             !.pkt.magic = d.magic]
              [] d.outcome = "shutdown" ->
                   [S EXCEPT !.rdr = d.rdr, !.st = "aborted",
                             !.em = Append(@, "FTL:Magic number not discovered.")]
              [] d.outcome = "fatal" ->
                   [S EXCEPT !.rdr = d.rdr, !.st = "aborted"]
              [] OTHER ->
                   [S EXCEPT !.rdr = d.rdr, !.st = "crashed"]
    ELSE [S EXCEPT !.pkt.magic = magic]

RECURSIVE Flat_next_byte_loop(_)
Flat_next_byte_loop(S) ==
    IF remaining(S.pkt) > 0
    THEN [S EXCEPT !.b = S.pkt.data[S.pkt.take + 1], !.pkt.take = @ + 1]
    ELSE LET S2 == Flat_RdPacket_next_packet(S)
         IN IF S2.st # "ok" THEN S2
            ELSE Flat_next_byte_loop([S2 EXCEPT !.pkt.new_packet = TRUE])

Flat_next_byte(S) ==
    LET S1 == IF S.pkt.magic = None THEN Flat_set_magic(S, None) ELSE S
    IN IF S1.st # "ok" THEN S1
       ELSE Flat_next_byte_loop([S1 EXCEPT !.pkt.new_packet = FALSE])

\* check_handshake of the flat analyzer on the packet p with
\* self.expect_ack = expect: the new flag, the lines emitted and whether
\* out.error raised.
Flat_check_handshake(p, expect, em) ==
    IF p.reply
    THEN IF p.handshake
         THEN LET _b == p.data[1]
                  known == _b \in {ACK, NAK, ERR, ENQ}
                  expect1 == IF _b = ACK THEN FALSE ELSE expect
                  em1 == IF known THEN em
                         ELSE Append(em, "ERR:Unexpected reply byte")
              IN IF ~known /\ error_raises
                 THEN [expect |-> expect1, em |-> em1, raised |-> TRUE]
                 ELSE IF expect1
                 THEN IF error_raises
                      THEN [expect |-> expect1,
                            em |-> Append(em1, "ERR:Received when ACK was expected."),
                            raised |-> TRUE]
                      ELSE [expect |-> FALSE,
                            em |-> em1 \o <<"ERR:Received when ACK was expected.",
                                            "RDR:<--">>,
                            raised |-> FALSE]
                 ELSE [expect |-> FALSE, em |-> Append(em1, "RDR:<--"),
                       raised |-> FALSE]
         ELSE [expect |-> expect, em |-> em \o <<"RDR:Reply data", "RDR:<--">>,
               raised |-> FALSE]
    ELSE [expect |-> TRUE, em |-> Append(em, "RDR:-->:Expecting ACK"),
          raised |-> FALSE]

\* The flat analyzer is given its magic or discovers it from a seekable
\* dump file.
FlatArgs == {a \in Args : ~a.on_the_fly}

FlatFiles == SeqsUpTo(RecsA, MaxRecs) \cup SeqsUpTo(RecsB, MaxScan)

InitFlat ==
    /\ args \in FlatArgs
    /\ file \in FlatFiles
    /\ rdr = RdrInit
    /\ pkt = PktInit
    /\ acks_expected = FALSE
    /\ fed = <<>>
    /\ pc = "init"
    /\ loads = <<>>
    /\ emitted = <<>>
    /\ scan = ScanInit
    /\ start = 0
    /\ fn = FnIdle
    /\ prs = RdParser_init
    /\ dec = DecIdle
    /\ emt = EmtIdle
    /\ proc = ProcIdle
    /\ plot = PlotIdle

\* RuidaProtocolAnalyzer.__init__ of the flat analyzer.
FlatConstruct ==
    /\ pc = "init"
    /\ LET S == Flat_set_magic(Thread, args.magic)
       IN /\ rdr' = S.rdr
          /\ pkt' = S.pkt
          /\ emitted' = S.em
          /\ loads' = S.lds
          /\ start' = S.rdr.pos
          /\ pc' = IF S.st = "ok" THEN "decode" ELSE S.st
    /\ UNCHANGED <<args, file, acks_expected, fed, scan, fn, prs, dec, emt,
                   proc, plot>>

\* The iteration of the flat decode loop after next_byte returned in S.
FlatDecodeByte(S, perr) ==
    LET hs == IF S.pkt.new_packet
              THEN Flat_check_handshake(S.pkt, acks_expected, S.em)
              ELSE [expect |-> acks_expected, em |-> S.em, raised |-> FALSE]
    IN
    /\ rdr' = S.rdr
    /\ pkt' = S.pkt
    /\ loads' = S.lds
    /\ IF S.st # "ok"
       THEN /\ pc' = S.st
            /\ emitted' = S.em
            /\ UNCHANGED <<acks_expected, fed>>
       ELSE /\ acks_expected' = hs.expect
            /\ emitted' = hs.em
            /\ IF hs.raised
               THEN pc' = "aborted" /\ fed' = fed
               ELSE IF S.pkt.handshake
               THEN pc' = "decode" /\ fed' = fed
               ELSE /\ fed' = Append(fed, ParserCall(S.b, S.pkt))
                    /\ pc' = IF perr THEN "aborted" ELSE "decode"

\* One iteration of the loop of the flat RuidaProtocolAnalyzer.decode.
FlatDecode ==
    /\ pc = "decode"
    /\ \E perr \in (IF args.stop_on_error THEN BOOLEAN ELSE {FALSE}) :
         FlatDecodeByte(Flat_next_byte(Thread), perr)
    /\ UNCHANGED <<args, file, scan, start, fn, prs, dec, emt, proc, plot>>

NextFlat == FlatConstruct \/ FlatDecode

SpecFlat == InitFlat /\ [][NextFlat]_vars

(***************************************************************************)
(* SpecPlt: the plotter CpaPlotter (src/cpa/cpa_plotter.py) called through *)
(* set_bed_dimension and add_line, with single stepping left disabled as   *)
(* the constructor leaves it.  Lengths and coordinates are whole           *)
(* millimetres; the figure and the window extents are not modelled, the    *)
(* lines drawn are counted.  out.error raises in strict mode.              *)
(***************************************************************************)
MaxLines == 2    \* lines drawn in a run of SpecPlt

\* Bed lengths (0: not set) and coordinates below, inside and beyond them.
Lengths == {0, 2, 3}
Coords == {-1, 1, 4}
Axes == {"X", "Y"}

\* CpaPlotter.__init__.
CpaPlotter_init ==
    [cmd_id |-> None, x |-> 0, y |-> 0, last_x |-> 0, last_y |-> 0,
     bed_xy |-> [X |-> 0, Y |-> 0], bed_sized |-> FALSE, moved |-> FALSE,
     plot_lines |-> 0, out |-> <<>>, exc |-> "none",
     last |-> [op |-> "init", axis |-> "", length |-> 0, x |-> 0, y |-> 0]]

\* out.error(message) of the plotter's emitter.
plot_error(p, line) ==
    IF error_raises
    THEN [p EXCEPT !.out = Append(@, line), !.exc = "SyntaxError"]
    ELSE [p EXCEPT !.out = Append(@, line)]

plot_verbose(p, line) == [p EXCEPT !.out = Append(@, line)]

\* set_bed_dimension from "_b = self.bed_xy" on: _b names the dict that the
\* next statement assigns into, so it holds the new length as well.
set_bed_dimension_rest(p, axis, length) ==
    LET bed_xy == [p.bed_xy EXCEPT ![axis] = length]
        _b == bed_xy
        p1 == [p EXCEPT !.bed_xy = bed_xy]
    IN IF _b.X # bed_xy.X \/ _b.Y # bed_xy.Y
       THEN IF bed_xy.X # 0 /\ bed_xy.Y # 0
            THEN [plot_verbose(p1, "vrb:Drawing bed rectangle.")
                      EXCEPT !.bed_sized = TRUE]
            ELSE plot_verbose(p1, "vrb:Bed dimension set.")
       ELSE plot_verbose(p1, "vrb:No change in bed size.")

\* CpaPlotter.set_bed_dimension(axis, length).
set_bed_dimension(p, axis, length) ==
    LET p1 == IF p.moved
              THEN plot_error(p, "ERR:Bed size being set after head was moved.")
              ELSE p
    IN IF p1.exc # "none" THEN p1
       ELSE LET p2 == IF p1.bed_xy[axis] # 0 /\ p1.bed_xy[axis] # length
                      THEN plot_error(p1, "ERR:Bed size changed.")
                      ELSE p1
            IN IF p2.exc # "none" THEN p2
               ELSE set_bed_dimension_rest(p2, axis, length)

\* CpaPlotter.valid_coord(axis, coord).
valid_coord(p, axis, coord) ==
    IF coord < 0
    THEN plot_error(p, "ERR:coordinate is less than 0.")
    ELSE IF p.bed_sized /\ coord > p.bed_xy[axis]
    THEN plot_error(p, "ERR:coordinate is outside bed area.")
    ELSE p

\* CpaPlotter.add_line(x, y, cut): the comparison of cmd_id raises TypeError
\* while no command id has been set.
add_line(p, x, y, cut) ==
    LET p1 == valid_coord(p, "X", x)
    IN IF p1.exc # "none" THEN p1
       ELSE LET p2 == valid_coord(p1, "Y", y)
            IN IF p2.exc # "none" THEN p2
               ELSE LET p3 == [p2 EXCEPT !.last_x = p2.x, !.x = x,
                                         !.last_y = p2.y, !.y = y]
                    IN IF p3.cmd_id = None
                       THEN [p3 EXCEPT !.exc = "TypeError"]
                       ELSE [p3 EXCEPT !.plot_lines = @ + 1, !.moved = TRUE]

InitPlt ==
    /\ args \in {a \in Args : a.magic = None /\ ~a.on_the_fly}
    /\ file = <<>>
    /\ rdr = RdrInit
    /\ pkt = PktInit
    /\ acks_expected = 0
    /\ fed = <<>>
    /\ pc = "plt"
    /\ loads = <<>>
    /\ emitted = <<>>
    /\ scan = ScanInit
    /\ start = 0
    /\ fn = FnIdle
    /\ prs = RdParser_init
    /\ dec = DecIdle
    /\ emt = EmtIdle
    /\ proc = ProcIdle
    /\ plot = CpaPlotter_init

PltBegin(p, op) == [p EXCEPT !.out = <<>>, !.last = op]

PltRest ==
    UNCHANGED <<args, file, rdr, pkt, acks_expected, fed, pc, loads,
                emitted, scan, start, fn, prs, dec, emt, proc>>

\* plot.set_bed_dimension(axis, length), as mt_bed_size_x and
\* mt_bed_size_y call it.
PltSetBed ==
    /\ pc = "plt"
    /\ plot.exc = "none"
    /\ \E axis \in Axes, length \in Lengths :
         plot' = set_bed_dimension(
                     PltBegin(plot, [op |-> "set_bed_dimension", axis |-> axis,
                                     length |-> length, x |-> 0, y |-> 0]),
                     axis, length)
    /\ PltRest

\* plot.add_line(x, y, cut), called as it stands or after cmd_update has
\* stored the id of the command in plot.cmd_id.
PltAddLine ==
    /\ pc = "plt"
    /\ plot.exc = "none"
    /\ plot.plot_lines < MaxLines
    /\ \E id \in {plot.cmd_id, plot.plot_lines + 1}, x \in Coords, y \in Coords,
          cut \in BOOLEAN :
         plot' = add_line(
                     [PltBegin(plot, [op |-> "add_line", axis |-> "",
                                      length |-> 0, x |-> x, y |-> y])
                          EXCEPT !.cmd_id = id],
                     x, y, cut)
    /\ PltRest

NextPlt == PltSetBed \/ PltAddLine

SpecPlt == InitPlt /\ [][NextPlt]_vars

(***************************************************************************)
(* The parser claims, over SpecPrs.  An operation is a call of step or of  *)
(* _enter_state; hist lists the operations so far, from is the state the   *)
(* last one started in, out and ret are what it wrote and returned.        *)
(***************************************************************************)
LastOp == prs.hist[Len(prs.hist)]

SteppedWith(b) == prs.hist # <<>> /\ LastOp.op = "step" /\ LastOp.b = b

Stepped == \E b \in StepBytes : SteppedWith(b)

RootKeys(kind) == {b \in DOMAIN CT : CT[b].kind = kind}

\* C13: a step from sync or expect_command with a root-table key whose
\* entry is a plain label returns the label as the decoded message and
\* leaves the parser in expect_command.
C13_LabelDispatch ==
    \A b \in RootKeys("str") :
        (SteppedWith(b) /\ prs.from \in {"sync", "expect_command"}) =>
            /\ prs.exc = "none"
            /\ prs.ret = Str(<<CT[b].label>>)
            /\ prs.state = "expect_command"

\* C14: a step from sync or expect_command with a root opcode whose entry
\* is a subtable leaves the parser in expect_sub_command with that subtable
\* active; and a step in expect_sub_command with a key of the active
\* subtable is dispatched by its entry: a label is returned and the parser
\* is in expect_command, a spec list makes it enter decode_parameters with
\* that list.
C14_EntersSubTable ==
    \A b \in RootKeys("dict") :
        (SteppedWith(b) /\ prs.from \in {"sync", "expect_command"}) =>
            /\ prs.exc = "none"
            /\ prs.state = "expect_sub_command"
            /\ prs.stepper = "expect_sub_command"
            /\ prs.ct = CT[b].sub

C14_DispatchesSubKey ==
    [][\A b \in StepBytes :
          (/\ prs.state = "expect_sub_command"
           /\ prs.exc = "none"
           /\ b \in DOMAIN TableOf(prs.ct)
           /\ prs'.hist = Append(prs.hist, [op |-> "step", b |-> b, s |-> ""])) =>
              LET e == TableOf(prs.ct)[b]
              IN /\ prs'.exc = "none"
                 /\ e.kind = "str" =>
                        prs'.ret = Str(<<e.label>>) /\ prs'.state = "expect_command"
                 /\ e.kind = "tuple" =>
                        prs'.state = "decode_parameters" /\ prs'.param_list = e]_vars

C14_SubOpcodeDispatch == []C14_EntersSubTable /\ C14_DispatchesSubKey

NoReply(e) == \A i \in 1..Len(e.specs) : e.specs[i] # REPLY

Entered(s) == prs.hist # <<>> /\ LastOp.op = "enter" /\ LastOp.s = s

\* The label followed by the first n formatted values, in spec order.
DecodedLine(e, n) ==
    <<e.label>> \o [i \in 1..(2 * n) |-> IF i % 2 = 1 THEN " " ELSE e.specs[i \div 2]]

\* C15: a command whose entry is a spec list of n parameter specs without
\* the REPLY marker puts the parser in decode_parameters with that list;
\* there every data byte but the last declared byte of the n-th parameter
\* returns None, and that last byte returns the label followed by the n
\* values in spec order and leaves the parser in expect_command.
C15_EntersDecodeParameters ==
    /\ \A b \in RootKeys("tuple") :
          (SteppedWith(b) /\ NoReply(CT[b]) /\ prs.from \in {"sync", "expect_command"}) =>
              /\ prs.exc = "none"
              /\ prs.state = "decode_parameters"
              /\ prs.param_list = CT[b]
              /\ prs.ret = NoneStr
    /\ (Entered("decode_parameters") /\ NoReply(prs.param_list)) =>
          prs.exc = "none" /\ prs.state = "decode_parameters"

C15_DecodesInOrder ==
    [][\A b \in StepBytes :
          (/\ prs.state = "decode_parameters"
           /\ prs.exc = "none"
           /\ NoReply(prs.param_list)
           /\ b < 128
           /\ prs'.hist = Append(prs.hist, [op |-> "step", b |-> b, s |-> ""])) =>
              LET n == Len(prs.param_list.specs)
                  last == prs.which_param = n /\ prs.decoder.remaining = 1
              IN /\ prs'.exc = "none"
                 /\ ~last => prs'.ret = NoneStr /\ prs'.state = "decode_parameters"
                 /\ last => /\ prs'.ret = Str(DecodedLine(prs.param_list, n))
                             /\ prs'.state = "expect_command"]_vars

C15_ParameterList == []C15_EntersDecodeParameters /\ C15_DecodesInOrder

\* Parameter accumulation has begun: the last operation dispatched a spec
\* list, by its opcode or by entering decode_parameters with it.
Accumulating ==
    \/ \E b \in RootKeys("tuple") :
          SteppedWith(b) /\ prs.from \in {"sync", "expect_command"}
    \/ Entered("decode_parameters") /\ prs.param_list.kind = "tuple"
    \/ Entered("expect_reply")

Discarded(p) ==
    /\ p.decoded \in {NoneStr, Str(<<>>)}
    /\ p.parameters = <<>>
    /\ p.param_bytes = <<>>

\* C16: during parameter accumulation the parser is in decode_parameters
\* or expect_reply, and a step there with a byte that has bit 7 set logs a
\* diagnostic, discards the decoded text, the parameters and the parameter
\* bytes and leaves the parser in sync; without stop_on_error the step
\* returns normally.
C16_AccumulationIsAState ==
    Accumulating => prs.exc = "none" /\ prs.state \in {"decode_parameters", "expect_reply"}

C16_OpcodeResyncs ==
    [][\A b \in StepBytes :
          (/\ prs.state \in {"decode_parameters", "expect_reply"}
           /\ prs.exc = "none"
           /\ b >= 128
           /\ prs'.hist = Append(prs.hist, [op |-> "step", b |-> b, s |-> ""])) =>
              /\ prs'.out # <<>>
              /\ ~args.stop_on_error =>
                    /\ prs'.exc = "none"
                    /\ prs'.state = "sync"
                    /\ prs'.stepper = "sync"
                    /\ Discarded(prs')]_vars

C17_NonOpcodeInExpectCommand ==
    \A b \in StepBytes :
        (SteppedWith(b) /\ b < 128 /\ prs.from = "expect_command") =>
            /\ prs.out # <<>>
            /\ Discarded(prs)
            /\ prs.exc = "none" =>
                  prs.state = "sync" /\ prs.stepper = "sync"

StepOp(b) == [op |-> "step", b |-> b, s |-> ""]

IsLine(p, line) == \E i \in 1..Len(p.out) : p.out[i] = line

\* C18: in sync, expect_command and expect_sub_command a step with an
\* opcode that is not a key of the active table writes a critical
\* diagnostic, raises nothing and leaves the parser in sync with the root
\* table active; and after the bytes FE 00 D7 from the initial state the
\* last step has decoded EOF.
C18_UnknownIsCritical ==
    [][\A b \in StepBytes :
          (/\ prs.state \in {"sync", "expect_command", "expect_sub_command"}
           /\ prs.exc = "none"
           /\ b >= 128
           /\ b \notin DOMAIN TableOf(prs.ct)
           /\ prs'.hist = Append(prs.hist, StepOp(b))) =>
              /\ IsLine(prs', "INT:CRT:not a known command.")
              /\ prs'.exc = "none"
              /\ prs'.state = "sync"
              /\ prs'.stepper = "sync"
              /\ prs'.ct = "CT"]_vars

C18_LaterCommandDecoded ==
    prs.hist = <<StepOp(254), StepOp(0), StepOp(215)>> =>
        prs.exc = "none" /\ prs.ret = Str(<<"EOF">>)

C18_UnknownOpcodeResync == C18_UnknownIsCritical /\ []C18_LaterCommandDecoded

CalledProtocol == prs.hist # <<>> /\ LastOp.op = "protocol"

\* C19: the diagnostic of a malformed table entry (RdaEmitter.protocol)
\* stops decoding with an exception whether or not stop_on_error is set:
\* no call of it returns normally, and no operation follows it.
C19_ProtocolErrorsAlwaysFatal ==
    /\ CalledProtocol => prs.exc # "none"
    /\ \A i \in 1..Len(prs.hist) : prs.hist[i].op = "protocol" => i = Len(prs.hist)

\* The spec at position k of a spec list is the REPLY marker.
ReplyAt(e, k) == k \in 1..Len(e.specs) /\ e.specs[k] = REPLY

\* C20: when the spec at position k of the active list is the REPLY
\* marker, then once position k-1 is complete the parser is in
\* expect_reply with the decoder primed with the spec at position k+1, a
\* parameter spec; the step that completes the last position returns the
\* command line and leaves the parser in expect_command.
C20_PrimedAfterMarker ==
    (Entered("decode_parameters") /\ ~NoReply(prs.param_list)) =>
        /\ prs.exc = "none"
        /\ ReplyAt(prs.param_list, 1) =>
              /\ prs.state = "expect_reply"
              /\ Len(prs.param_list.specs) >= 2
              /\ prs.decoder.spec = prs.param_list.specs[2]
        /\ ~ReplyAt(prs.param_list, 1) => prs.state = "decode_parameters"

C20_WeavesReply ==
    [][\A b \in StepBytes :
          (/\ prs.state \in {"decode_parameters", "expect_reply"}
           /\ prs.exc = "none"
           /\ b < 128
           /\ prs.decoder.remaining = 1
           /\ prs'.hist = Append(prs.hist, StepOp(b))) =>
              LET e == prs.param_list
                  k == prs.which_param + 1
              IN /\ prs'.exc = "none"
                 /\ ReplyAt(e, k) =>
                       /\ prs'.state = "expect_reply"
                       /\ prs'.decoder.spec = e.specs[k + 1]
                 /\ (prs.state = "expect_reply" /\ k > Len(e.specs)) =>
                       /\ ~prs'.ret.none
                       /\ prs'.state = "expect_command"]_vars

C20_ReplyWeaving == []C20_PrimedAfterMarker /\ C20_WeavesReply

\* The parser waits for the next opcode.
Waiting == prs.exc = "none" /\ prs.state \in {"sync", "expect_command"}

\* The per-command substate holds nothing.
Clean(p) ==
    /\ p.parameters = <<>>
    /\ p.param_bytes = <<>>
    /\ p.command_bytes = <<>>
    /\ p.data = <<>>
    /\ p.decoded.text = <<>>
    /\ p.decoder.data = <<>>
    /\ p.ct = "CT"

\* C21: whenever the parser waits for the next opcode, parameters,
\* param_bytes, command_bytes and data are empty, the decoded buffer and
\* the decoder hold nothing and the root table is active; a step that
\* returned a decoded line leaves the parser waiting; and a command that
\* is complete with its opcode (a label) leaves the parser waiting.
C21_CleanBetweenCommands ==
    /\ Waiting => Clean(prs)
    /\ (prs.exc = "none" /\ ~prs.ret.none) => Waiting
    /\ \A b \in RootKeys("str") :
          (SteppedWith(b) /\ prs.from \in {"sync", "expect_command"}) => Waiting

\* The decoded lines an emitter has written, in order.
DecodeLines(e) == SelectSeq(e.lines, LAMBDA l : l.chan = "PRT:PRS")

RECURSIVE Fold7(_, _)
Fold7(d, n) == IF n = 0 THEN 0 ELSE (Fold7(d, n - 1) * 128) + d[n]

Bit6(b) == (b \div 64) % 2 = 1

\* The bytes d with bit 6 of the first one masked off.
Masked(d) == [i \in 1..Len(d) |-> IF i = 1 /\ Bit6(d[1]) THEN d[1] - 64 ELSE d[i]]

SevenBit(d) == \A i \in 1..Len(d) : d[i] < 128

\* The step completed a parameter of n bytes of a primitive spec.
Completed(n) ==
    /\ dec.last = "step"
    /\ dec.exc = "none"
    /\ dec.decoder.spec \in PrimitiveSpecs
    /\ dec.decoder.length = n
    /\ Len(dec.since) = n

\* C23: for n in {2, 5} and bytes with bit 7 clear, the unsigned value is
\* the 7-bit MSB-first fold of the bytes, and the signed value is the fold
\* with bit 6 of the first byte masked off, negated iff that bit is set.
C23_IntegerLaw ==
    \A n \in {2, 5} :
        (Completed(n) /\ SevenBit(dec.since)) =>
            /\ DDEC(dec.decoder.spec) \in {"uint14", "uint35"} =>
                  dec.decoder.value = [t |-> "int", n |-> Fold7(dec.since, n)]
            /\ DDEC(dec.decoder.spec) \in {"int14", "int35"} =>
                  dec.decoder.value =
                      [t |-> "int",
                       n |-> IF Bit6(dec.since[1])
                             THEN 0 - Fold7(Masked(dec.since), n)
                             ELSE Fold7(Masked(dec.since), n)]

C25_SevenBitData ==
    /\ SevenBit(dec.decoder.data)
    /\ (dec.last = "step" /\ ~SevenBit(dec.since)) => dec.ret.none

(***************************************************************************)
(* The emitter's escalation, over SpecEmt.                                 *)
(***************************************************************************)
\* The emitter method called last.
LastCall == IF emt.hist = <<>> THEN "none" ELSE emt.hist[Len(emt.hist)]

\* The call raised: control did not return to the decode loop.
Raised == emt.exc # "none"

\* C27: in both emitters fatal always raises; error raises iff
\* --stop-on-error is set and otherwise returns, so with --stop-on-error
\* no call to error returns control to the decode loop.
C27_StrictEscalation ==
    /\ LastCall = "fatal" => Raised
    /\ LastCall = "error" => (Raised <=> args.stop_on_error)

(***************************************************************************)
(* The exit status, over SpecMain.                                         *)
(***************************************************************************)
Exited == pc = "main" /\ proc.at = "exited"

\* The terminal decode errors: the magic was not discovered, an emitter's
\* fatal was called during decode, or, with --stop-on-error, a parser
\* error was reported.
TerminalError ==
    \/ proc.by = "shutdown"
    \/ proc.by = "fatal" /\ proc.during = "decode"
    \/ proc.by = "error" /\ args.stop_on_error

\* C26: in both entry points a terminal decode error ends the process
\* with status 1, and normal completion and an operator interrupt end it
\* with status 0.
C26_ExitStatus ==
    Exited =>
        /\ TerminalError => proc.status = 1
        /\ proc.by \in {"return", "interrupt"} => proc.status = 0

(***************************************************************************)
(* The reader's length test and the byte cursor, over Spec.                *)
(***************************************************************************)
\* The payload of the record has not the length its udp_length declares.
LengthDisagrees(rec) == Len(rec.data) # rec.udp_length - 8

\* The reader has just read a record whose lengths disagree.
ReadDisagreeing == rdr.pos > 0 /\ LengthDisagrees(file[rdr.pos])

\* C28: after the reader has read a record whose payload length differs
\* from udp_length - 8, decoding is aborted with --stop-on-error and goes
\* on with the following records without it.
C28_LengthDisagreement ==
    ReadDisagreeing =>
        /\ args.stop_on_error => pc = "aborted"
        /\ ~args.stop_on_error => pc \in {"decode", "done"}

\* The length of the packet a record makes: its payload, less the two
\* checksum bytes when it comes from the host.
ExposedLen(rec) ==
    IF ReplyRec(rec) THEN Len(rec.data) ELSE Max(Len(rec.data) - 2, 0)

\* 0 <= take <= length, so that remaining = length - take >= 0.
C29_CursorInRange ==
    /\ 0 <= pkt.take
    /\ pkt.take <= pkt.length
    /\ remaining(pkt) >= 0

\* Every byte passed on came with take in 1..L and remaining = L - take,
\* L the length of its packet: L - 1 with the first byte, 0 with the last.
C29_DeliveredWith ==
    \A i \in 1..Len(fed) :
        LET L == ExposedLen(file[fed[i].src])
        IN /\ 1 <= fed[i].take
           /\ fed[i].take <= L
           /\ fed[i].remaining = L - fed[i].take

\* A next_byte that returns a byte of the current packet takes 1 from
\* remaining; one that loads packets returns the first byte of the last
\* one loaded, with remaining reset to that packet's length less 1.
C29_NextByte ==
    [][(pc = "decode" /\ pc' = "decode") =>
          IF loads' = <<>>
          THEN /\ pkt'.length = pkt.length
               /\ remaining(pkt') = remaining(pkt) - 1
          ELSE /\ pkt'.length = loads'[Len(loads')].length
               /\ pkt'.take = 1
               /\ remaining(pkt') = pkt'.length - 1
    ]_vars

\* C29: in every state of RdPacket 0 <= take <= length and remaining =
\* length - take >= 0; a next_byte that returns a byte of the current
\* packet decreases remaining by exactly 1; loading a packet resets
\* remaining to its length, so the first byte of a packet of length L comes
\* with remaining = L - 1 and the last with remaining = 0.
C29_ByteCursor ==
    [](C29_CursorInRange /\ C29_DeliveredWith) /\ C29_NextByte

\* Decode ran through a packet of three bytes and then a shorter one: the
\* cursor went past the length of the packet that followed.
C29_Witness ==
    /\ pc = "done"
    /\ Len(fed) >= 4
    /\ \E i \in 1..Len(fed) : fed[i].take = 3 /\ fed[i].remaining = 0
    /\ fed[Len(fed)].take = 1
    /\ fed[Len(fed)].remaining = 0
    /\ pkt.length = 1

(***************************************************************************)
(* Termination at the end of the input, over Spec.  Decode is a loop of a  *)
(* sequential program, so it terminates when no iteration can go on for    *)
(* ever: every iteration that does not end the loop lowers a measure that  *)
(* is never negative, and the loop is never stuck before its end.          *)
(***************************************************************************)
\* Every record of the file has the payload length it declares.
ReadableFile == \A i \in 1..Len(file) : ~LengthDisagrees(file[i])

KnownMagic == pkt.magic # None

\* What is left of the records after the first n: one for each record
\* and one for each byte of its packet.
RECURSIVE Unread(_)
Unread(n) ==
    IF n >= Len(file) THEN 0
    ELSE ExposedLen(file[n + 1]) + 1 + Unread(n + 1)

\* The measure: the bytes left in the current packet and what is left of
\* the file.
Undelivered == remaining(pkt) + Unread(rdr.pos)

InScope == KnownMagic /\ ReadableFile

\* An iteration of the loop returns from decode, raises, or leaves less
\* undelivered.
C30_Progress ==
    [][(pc = "decode" /\ InScope) =>
          (pc' # "decode" \/ Undelivered' < Undelivered)]_vars

\* The loop is never stuck: in decode the next iteration can be taken,
\* the caps on the calls recorded and on the counter being out of reach.
C30_NotStuck ==
    (pc = "decode" /\ InScope) =>
        /\ Len(fed) < FileBytes(file) + MaxDup
        /\ Abs(acks_expected) < Len(file) + MaxDup

\* Decode ends by returning, and only with --stop-on-error by a raise.
C30_EndsNormally ==
    (pc \notin {"init", "decode"} /\ InScope) =>
        (pc = "done" \/ (args.stop_on_error /\ pc = "aborted"))

\* Decode has returned: next_packet returned None at the end of the file,
\* nothing is left undelivered, and every byte of every packet from the
\* one decode started at has been passed on once, in order.
C30_AllDelivered ==
    (pc = "done" /\ InScope) =>
        /\ rdr.pos = Len(file)
        /\ Undelivered = 0
        /\ FedBytes = ExpectedFeed(start, pkt.magic)

\* C30: on a finite file of well-formed records with the magic known,
\* decode terminates: next_byte returns None once every payload byte of
\* every record has been delivered once and the reader is at the end of
\* the file, and decode returns, also when the file is empty or ends in
\* packets without payload.
C30_Termination ==
    /\ [](Undelivered >= 0 /\ C30_NotStuck /\ C30_EndsNormally
                           /\ C30_AllDelivered)
    /\ C30_Progress

\* Decode returned on a file of several records that ends in a packet
\* without payload, after passing bytes on.
C30_Witness ==
    /\ pc = "done"
    /\ InScope
    /\ Len(file) >= 2
    /\ ExposedLen(file[Len(file)]) = 0
    /\ fed # <<>>
    /\ rdr.pos = Len(file)

(***************************************************************************)
(* The sign of a one-byte integer, over SpecDec.                           *)
(***************************************************************************)
\* The signed value of the 7-bit byte b: bit 6 is the sign and the low
\* six bits are the magnitude.
Signed7(b) == IF Bit6(b) THEN 0 - (b % 64) ELSE b

\* C40: for every 7-bit byte b, rd_int7 gives what the multi-byte signed
\* decoder gives for the single byte: b when bit 6 is clear and
\* -(b & 0x3F) when it is set.
C40_Int7Sign ==
    (Completed(1) /\ DDEC(dec.decoder.spec) = "int7" /\ SevenBit(dec.since)) =>
        /\ dec.decoder.value = [t |-> "int", n |-> Signed7(dec.since[1])]
        /\ dec.decoder.value.n = to_int(dec.since, 1)

(***************************************************************************)
(* String parameters, over SpecDec.                                        *)
(***************************************************************************)
CStringSpecs == {"CSTRING", "FNAME", "ENAME"}

\* The bytes stepped since the prime end in the first 0x00 among them.
Terminated(d) ==
    /\ d # <<>>
    /\ d[Len(d)] = 0
    /\ \A i \in 1..(Len(d) - 1) : d[i] # 0

\* C33: a prime with a string spec succeeds, and the steps after it return
\* None for every non-zero byte and a string exactly on the step that
\* feeds the 0x00 terminator, the bytes before it being the characters.
C33_CStringUntilTerminator ==
    dec.decoder.spec \in CStringSpecs =>
        /\ dec.last = "prime" => dec.exc = "none"
        /\ (dec.last = "step" /\ SevenBit(dec.since)) =>
              /\ dec.exc = "none"
              /\ dec.decoder.data = dec.since
              /\ ~dec.ret.none <=> Terminated(dec.since)

(***************************************************************************)
(* The magic table against the deswizzle, over SpecSwz.                    *)
(***************************************************************************)
\* The byte about to be deswizzled is a raw byte of MAGIC_LUT and the
\* magic is the one the table gives for it.
TableEntry == fn.r \in DOMAIN MAGIC_LUT /\ fn.m = MAGIC_LUT[fn.r]

HandshakeDiagnostics == {"ERR:Handshake", "WRN:Handshake"}

\* The step counted a host packet in while an earlier one was still
\* unacknowledged.
Pipelined ==
    /\ pc = "decode"
    /\ acks_expected >= 1
    /\ acks_expected' = acks_expected + 1

\* C32: a host packet that arrives while an earlier host packet is still
\* unacknowledged draws a warning or an error about the missing ACK, and
\* decoding goes on.
C32_PipeliningSurfaced ==
    [][Pipelined =>
          /\ \E i \in 1..Len(emitted') : emitted'[i] \in HandshakeDiagnostics
          /\ (pc' = "aborted" => args.stop_on_error)
    ]_vars

(***************************************************************************)
(* C34: in the flat analyzer, after any sequence of packets the packet's   *)
(* handshake flag is set exactly when the current packet is a reply of     *)
(* length 1, and an iteration of decode that takes a byte of a host packet *)
(* passes that byte to the parser.  Over SpecFlat.                         *)
(***************************************************************************)
FlagIsReplyOfOne ==
    pkt.cur # 0 => (pkt.handshake <=> (pkt.reply /\ pkt.length = 1))

HostByteTaken == pc = "decode" /\ pc' = "decode" /\ ~pkt'.reply

C34_FlatHandshakeFlag ==
    /\ []FlagIsReplyOfOne
    /\ [][HostByteTaken => fed' = Append(fed, ParserCall(pkt'.data[pkt'.take], pkt'))]_vars

(***************************************************************************)
(* C31: the parser can be in expect_reply with a call of step to come, and *)
(* a step there with a data byte of host direction (is_reply false) leaves *)
(* the bytes the decoder has accumulated as they were and returns no       *)
(* reply.  Over SpecPrs.                                                   *)
(***************************************************************************)
C31_ReplyStateTakesBytes == Entered("expect_reply") => prs.exc = "none"

C31_HostByteKeptOut ==
    [][\A b \in StepBytes :
          (/\ prs.state = "expect_reply"
           /\ prs.exc = "none"
           /\ b < 128
           /\ prs'.hist = Append(prs.hist, StepOp(b))
           /\ ~prs'.is_reply) =>
              /\ prs'.decoder.data = prs.decoder.data
              /\ prs'.ret.none]_vars

C31_ReplyDirection == []C31_ReplyStateTakesBytes /\ C31_HostByteKeptOut

(***************************************************************************)
(* C36: on a parser that has only been stepped since its construction, in  *)
(* non-strict mode, a call of step with any byte and any is_reply returns  *)
(* normally and leaves the parser in a state that has handlers.  Over      *)
(* SpecPrs.                                                                *)
(***************************************************************************)
OnlyStepped(p) == \A i \in 1..Len(p.hist) : p.hist[i].op = "step"

C36_StepReturns ==
    [][\A b \in StepBytes :
          (/\ ~args.stop_on_error
           /\ OnlyStepped(prs)
           /\ prs.exc = "none"
           /\ prs'.hist = Append(prs.hist, StepOp(b))) =>
              /\ prs'.exc = "none"
              /\ prs'.state \in STATES
              /\ prs'.stepper \in STATES]_vars

(***************************************************************************)
(* C37: every root entry of CT is a label, a spec list or a sub-table,     *)
(* every entry of a sub-table of CT is a label or a spec list, and priming *)
(* the decoder with a parameter spec that appears in CT raises nothing and *)
(* leaves a decoder with a byte length.  Over SpecDec.                     *)
(***************************************************************************)
SubTables == {CT[k].sub : k \in {j \in DOMAIN CT : CT[j].kind = "dict"}}

RootWellFormed == \A k \in DOMAIN CT : CT[k].kind \in {"str", "tuple", "dict"}

SubWellFormed ==
    \A t \in SubTables :
        \A k \in DOMAIN TableOf(t) : TableOf(t)[k].kind \in {"str", "tuple"}

SpecsIn(T) ==
    UNION {{T[k].specs[i] : i \in 1..Len(T[k].specs)} : k \in DOMAIN T}

SpecsOfCT ==
    (SpecsIn(CT) \cup UNION {SpecsIn(TableOf(t)) : t \in SubTables}) \ {REPLY}

PrimeResolves ==
    (dec.last = "prime" /\ dec.decoder.spec \in SpecsOfCT) =>
        dec.exc = "none" /\ dec.decoder.length >= 1

C37_TableDispatchable == RootWellFormed /\ SubWellFormed /\ PrimeResolves

(***************************************************************************)
(* C39: parameter accumulation is a state the parser can be stepped in; a  *)
(* step there with an opcode returns nothing and leaves the parser in sync *)
(* with no command in flight, so the opcode is not dispatched; and a known *)
(* label opcode stepped in sync afterwards is the command decoded next.    *)
(* Over SpecPrs.                                                           *)
(***************************************************************************)
C39_Interruptible == Accumulating => prs.exc = "none"

C39_OpcodeConsumed ==
    [][\A b \in StepBytes :
          (/\ prs.state \in {"decode_parameters", "expect_reply"}
           /\ prs.exc = "none"
           /\ ~args.stop_on_error
           /\ b >= 128
           /\ prs'.hist = Append(prs.hist, StepOp(b))) =>
              /\ prs'.exc = "none"
              /\ prs'.ret.none
              /\ prs'.state = "sync"
              /\ prs'.decoded \in {NoneStr, Str(<<>>)}]_vars

C39_NextOpcodeDecodes ==
    [][\A b \in RootKeys("str") :
          (/\ prs.state = "sync"
           /\ prs.exc = "none"
           /\ prs'.hist = Append(prs.hist, StepOp(b))) =>
              /\ prs'.exc = "none"
              /\ prs'.ret = Str(<<CT[b].label>>)]_vars

C39_InterruptingOpcode ==
    []C39_Interruptible /\ C39_OpcodeConsumed /\ C39_NextOpcodeDecodes

(***************************************************************************)
(* C35: once both bed dimensions hold a non-zero length the plotter's      *)
(* bed_sized is true, and an add_line from then on to a coordinate beyond  *)
(* the bed dimension of its axis writes the 'outside bed area' error.      *)
(* Over SpecPlt.                                                           *)
(***************************************************************************)
BothDimensionsSet(p) == p.bed_xy.X # 0 /\ p.bed_xy.Y # 0

OutsideBed(p, x, y) == x > p.bed_xy.X \/ y > p.bed_xy.Y

WroteOutside(p) ==
    \E i \in 1..Len(p.out) : p.out[i] = "ERR:coordinate is outside bed area."

C35_BedSized == BothDimensionsSet(plot) => plot.bed_sized

C35_OutsideReported ==
    [][(/\ BothDimensionsSet(plot)
        /\ plot'.last.op = "add_line"
        /\ plot'.last.x >= 0
        /\ OutsideBed(plot, plot'.last.x, plot'.last.y)) =>
           WroteOutside(plot')]_vars

C35_BedSizing == []C35_BedSized /\ C35_OutsideReported

====
